---- MODULE Spec2Model ----
(***************************************************************************)
(* Model of the cash-flow forecast core of xiruizhao/cashflow-forecast:    *)
(*   - the accounts mini-language (utils.split_accounts and the two        *)
(*     encoders in view_table.py and add_entry.py),                        *)
(*   - the recurrence codec (utils.generate_rrulestr / parse_rrulestr),    *)
(*   - the forecast engine (utils.generate_forecast).                      *)
(* Python strings are sequences of one-character strings, so that          *)
(* splitting, parsing and formatting are computed, not assumed.            *)
(* Amounts are kept in hundredths: the int 5 is 500 hundredths, the float  *)
(* 0.5 is 50 hundredths; fl tells the Python type (int or float).          *)
(* Each component has its own specification; a component that is not the   *)
(* subject of a specification stays idle in it.                            *)
(***************************************************************************)
EXTENDS Integers, Sequences, FiniteSets, TLC

VARIABLES
    accPc,      \* accounts codec: position of the scenario
    accStr,     \* the accounts string at hand
    accMap,     \* the map that was encoded (or <<>>)
    accRet,     \* what split_accounts returned last
    rrPc,       \* recurrence codec: position of the scenario
    rrForm,     \* the recurrence inputs of the add form (or None)
    rrGen,      \* what generate_rrulestr did: a rule string, or req() stopped it
    rrRet,      \* what parse_rrulestr returned last
    rrToday,    \* the date dateutil reads as the default dtstart
    fcPc,       \* forecast engine: position of the scenario
    fcCfs,      \* the entry table: desc, accounts, dtstart, rrule per row
    fcAfter,    \* first day of the forecast window
    fcBefore,   \* last day of the forecast window
    fcOut,      \* what generate_forecast returned (or None)
    fcPrev,     \* what the call before that one returned (or None)
    fcPandas,   \* what the installed pandas does with an empty activity frame
    pxPc,       \* price lookup: position of the scenario
    pxCache,    \* the session's price cache: symbol to price
    pxSym,      \* the symbol get_stock_price was last called with (or None)
    pxLookup,   \* what the external lookup of that call did (None: there was none)
    pxRet,      \* what get_stock_price returned or raised last (or None)
    csPc,       \* entry list: position of the session
    csList,     \* cashflow_series: the rows desc, accounts, dtstart, rrule
    csContent,  \* what get_cashflow_series_upload was last given (or None)
    csRet,      \* what get_cashflow_series_upload returned or raised last (or None)
    csPatch,    \* the cell edit the patch function was last given (or None)
    csCell,     \* what the patch function returned or raised for it (or None)
    csRows,     \* the rows selected in the grid when Delete Selected last ran
    fmPc,       \* add form: the handler that ran last
    fmForm,     \* the add form: account rows, the two account buttons, the recurrence inputs
    fmRow,      \* the entry edit_row was last given (or None)
    fmExc,      \* what the last handler raised (or "none")
    tkPc,       \* ticker conversion: position of the session
    tkCfs,      \* the entry list the forecast is made from
    tkInputs,   \* stock_price_inputs: symbol to the value of its price input
    tkOut       \* what cashflow_forecast returned or raised last (or None)

accVars == <<accPc, accStr, accMap, accRet>>
rrVars == <<rrPc, rrForm, rrGen, rrRet, rrToday>>
fcVars == <<fcPc, fcCfs, fcAfter, fcBefore, fcOut, fcPrev, fcPandas>>
pxVars == <<pxPc, pxCache, pxSym, pxLookup, pxRet>>
csVars == <<csPc, csList, csContent, csRet, csPatch, csCell, csRows>>
fmVars == <<fmPc, fmForm, fmRow, fmExc>>
tkVars == <<tkPc, tkCfs, tkInputs, tkOut>>
vars == <<accVars, rrVars, fcVars, pxVars, csVars, fmVars, tkVars>>

----------------------------------------------------------------------------
(* Bounds of the model *)

MaxLen == 5          \* longest enumerated accounts string, in pieces
MaxMapLen == 2       \* most accounts of an enumerated map
MaxInterval == 3     \* largest enumerated interval
MaxCount == 2        \* largest enumerated count
MaxEntries == 2      \* most rows of an enumerated entry table

----------------------------------------------------------------------------
(* Python string helpers *)

\* str.split() separators: Python's whitespace (the ones the model types)
Whitespace == {" ", "\n", "\t"}

Digits == {"0", "1", "2", "3", "4", "5", "6", "7", "8", "9"}

DigitVal(c) ==
    CASE c = "0" -> 0 [] c = "1" -> 1 [] c = "2" -> 2 [] c = "3" -> 3
      [] c = "4" -> 4 [] c = "5" -> 5 [] c = "6" -> 6 [] c = "7" -> 7
      [] c = "8" -> 8 [] c = "9" -> 9

DigitChar(n) ==
    CASE n = 0 -> "0" [] n = 1 -> "1" [] n = 2 -> "2" [] n = 3 -> "3"
      [] n = 4 -> "4" [] n = 5 -> "5" [] n = 6 -> "6" [] n = 7 -> "7"
      [] n = 8 -> "8" [] n = 9 -> "9"

\* c in s
Contains(s, c) == \E i \in 1..Len(s) : s[i] = c

AllDigits(s) == \A i \in 1..Len(s) : s[i] \in Digits

RECURSIVE Flatten(_)
Flatten(ss) == IF ss = <<>> THEN <<>> ELSE Head(ss) \o Flatten(Tail(ss))

\* sep.join(parts)
RECURSIVE Join(_, _)
Join(parts, sep) ==
    IF parts = <<>> THEN <<>>
    ELSE IF Len(parts) = 1 THEN parts[1]
    ELSE parts[1] \o sep \o Join(Tail(parts), sep)

\* s.split(c) for a one-character separator: always at least one part
RECURSIVE SplitOn(_, _)
SplitOn(s, c) ==
    IF ~Contains(s, c) THEN <<s>>
    ELSE LET i == CHOOSE k \in 1..Len(s) :
                      s[k] = c /\ \A j \in 1..(k - 1) : s[j] # c
         IN <<SubSeq(s, 1, i - 1)>> \o SplitOn(SubSeq(s, i + 1, Len(s)), c)

\* s.split(): runs of whitespace separate, no empty parts
RECURSIVE SplitWS(_)
SplitWS(s) ==
    IF s = <<>> THEN <<>>
    ELSE IF Head(s) \in Whitespace THEN SplitWS(Tail(s))
    ELSE LET stops == {k \in 1..Len(s) : s[k] \in Whitespace}
             e == IF stops = {} THEN Len(s) + 1
                  ELSE CHOOSE k \in stops : \A j \in stops : k <= j
         IN <<SubSeq(s, 1, e - 1)>> \o SplitWS(SubSeq(s, e, Len(s)))

\* value of a non-empty run of decimal digits
RECURSIVE DigitsVal(_)
DigitsVal(s) ==
    IF s = <<>> THEN 0
    ELSE DigitsVal(SubSeq(s, 1, Len(s) - 1)) * 10 + DigitVal(s[Len(s)])

\* str(n) for n >= 0
RECURSIVE NatStr(_)
NatStr(n) ==
    IF n < 10 THEN <<DigitChar(n)>>
    ELSE NatStr(n \div 10) \o <<DigitChar(n % 10)>>

ValueError == [ok |-> FALSE]

\* int(s): an optional sign, then decimal digits
PyInt(s) ==
    LET signed == s # <<>> /\ s[1] \in {"+", "-"}
        body == IF signed THEN Tail(s) ELSE s
    IN IF body = <<>> \/ ~AllDigits(body) THEN ValueError
       ELSE LET v == DigitsVal(body)
            IN [ok |-> TRUE, fl |-> FALSE,
                neg |-> (signed /\ s[1] = "-" /\ v > 0), mag |-> 100 * v]

\* the hundredths nearest to 0.<frac>, ties to even
FracHundredths(int, frac) ==
    LET d(i) == IF i <= Len(frac) THEN DigitVal(frac[i]) ELSE 0
        base == 100 * int + 10 * d(1) + d(2)
        rest == SubSeq(frac, 3, Len(frac))
        nonzeroAfter == \E i \in 2..Len(rest) : rest[i] # "0"
        up == /\ rest # <<>>
              /\ \/ DigitVal(rest[1]) > 5
                 \/ DigitVal(rest[1]) = 5 /\ (nonzeroAfter \/ base % 2 = 1)
    IN IF up THEN base + 1 ELSE base

\* round(float(s), 2): an optional sign, then digits with one "." among them
\* (at least one digit in all)
PyFloatRound2(s) ==
    LET signed == s # <<>> /\ s[1] \in {"+", "-"}
        body == IF signed THEN Tail(s) ELSE s
        parts == SplitOn(body, ".")
    IN IF Len(parts) > 2 THEN ValueError
       ELSE LET int == parts[1]
                frac == IF Len(parts) = 2 THEN parts[2] ELSE <<>>
            IN IF int \o frac = <<>> \/ ~AllDigits(int \o frac) THEN ValueError
               ELSE [ok |-> TRUE, fl |-> TRUE,
                     neg |-> (signed /\ s[1] = "-"),
                     mag |-> FracHundredths(DigitsVal(int), frac)]

\* f"{amt:+}": the sign always, then str of the magnitude
FormatAmt_nosign(amt) ==
    (IF amt.neg THEN <<"-">> ELSE <<>>)
    \o NatStr(amt.mag \div 100)
    \o (IF ~amt.fl THEN <<>>
        ELSE <<".">> \o
             (IF amt.mag % 10 = 0 THEN <<DigitChar((amt.mag % 100) \div 10)>>
              ELSE <<DigitChar((amt.mag % 100) \div 10), DigitChar(amt.mag % 10)>>))

FormatAmt(amt) ==
    (IF amt.neg THEN <<"-">> ELSE <<"+">>)
    \o NatStr(amt.mag \div 100)
    \o (IF ~amt.fl THEN <<>>
        ELSE <<".">> \o
             (IF amt.mag % 10 = 0 THEN <<DigitChar((amt.mag % 100) \div 10)>>
              ELSE <<DigitChar((amt.mag % 100) \div 10), DigitChar(amt.mag % 10)>>))

----------------------------------------------------------------------------
(* The accounts mini-language *)

S_desc == <<"d", "e", "s", "c">>
S_accounts == <<"a", "c", "c", "o", "u", "n", "t", "s">>
S_activity == <<"a", "c", "t", "i", "v", "i", "t", "y">>
S_date == <<"d", "a", "t", "e">>
S_sum == <<"s", "u", "m">>

\* the special column names
ReservedNames == {S_desc, S_accounts, S_activity, S_date, S_sum}

\* a dict is the sequence of its items in insertion order
Keys(ret) == {ret[i].name : i \in 1..Len(ret)}

Amt(v) == [fl |-> v.fl, neg |-> v.neg, mag |-> v.mag]

\* Python's == on numbers: 5 == 5.0, -0.0 == 0
Num(amt) == IF amt.neg THEN 0 - amt.mag ELSE amt.mag

\* Python's == on dicts: same keys, equal values, whatever the order
DictEq(a, b) ==
    /\ Len(a) = Len(b)
    /\ Keys(a) = Keys(b)
    /\ \A i \in 1..Len(a) : \A j \in 1..Len(b) :
           a[i].name = b[j].name => Num(a[i].amt) = Num(b[j].amt)

\* "return {}" on a bad token
Rejected_partial(ret) == ret

Rejected(ret) == <<>>

\* the for loop of split_accounts over accounts.split(), from token i on
RECURSIVE split_accounts_from(_, _, _)
split_accounts_from(tokens, i, ret) ==
    IF i > Len(tokens) THEN ret
    ELSE
      LET account == tokens[i]
          plus == Contains(account, "+")
          minus == Contains(account, "-")
          parts == IF plus THEN SplitOn(account, "+") ELSE SplitOn(account, "-")
      IN IF ~plus /\ ~minus THEN Rejected(ret)
         ELSE IF Len(parts) # 2 THEN Rejected(ret)   \* unpacking: ValueError
         ELSE
           LET name == parts[1]
               amt == IF plus THEN parts[2] ELSE <<"-">> \o parts[2]
           IN IF name \in Keys(ret) \/ name \in ReservedNames THEN Rejected(ret)
              ELSE
                LET v == IF Contains(amt, ".") THEN PyFloatRound2(amt)
                         ELSE PyInt(amt)
                IN IF ~v.ok THEN Rejected(ret)       \* except ValueError
                   ELSE split_accounts_from(
                            tokens, i + 1,
                            Append(ret, [name |-> name, amt |-> Amt(v)]))

split_accounts(accounts) == split_accounts_from(SplitWS(accounts), 1, <<>>)

\* " ".join(f"{name}{amt:+}" for name, amt in accs.items())
EncodeAccounts(accs) ==
    Join([i \in 1..Len(accs) |-> accs[i].name \o FormatAmt(accs[i].amt)], <<" ">>)

----------------------------------------------------------------------------
(* Recurrence codec: the add form's recurrence inputs *)

None == [t |-> "none"]
IntVal(n) == [t |-> "int", v |-> n]
FloatVal == [t |-> "float"]
DateVal(y, m, d) == [t |-> "date", y |-> y, m |-> m, d |-> d]

S_NEVER == <<"N", "E", "V", "E", "R">>
S_DAILY == <<"D", "A", "I", "L", "Y">>
S_WEEKLY == <<"W", "E", "E", "K", "L", "Y">>
S_MONTHLY == <<"M", "O", "N", "T", "H", "L", "Y">>
S_YEARLY == <<"Y", "E", "A", "R", "L", "Y">>
S_UNTIL == <<"U", "N", "T", "I", "L">>
S_COUNT == <<"C", "O", "U", "N", "T">>
S_monthday == <<"m", "o", "n", "t", "h", "d", "a", "y">>
S_weekday == <<"w", "e", "e", "k", "d", "a", "y">>
S_MO == <<"M", "O">>
S_FR == <<"F", "R">>

\* utils.required on a text, selectize or checkbox-group value
required(val) == val # <<>>

\* utils.required on a date input
required_date(val) == val.t # "none"

\* utils.integer on a numeric input
integer(val) == val.t = "int"

\* str(n) of a Python int
PyStr(n) == IF n < 0 THEN <<"-">> \o NatStr(0 - n) ELSE NatStr(n)

\* two decimal digits, zero padded (%m, %d)
Pad2(n) == <<DigitChar(n \div 10), DigitChar(n % 10)>>

\* four decimal digits, zero padded (%Y of a year from 1000 on)
Pad4(n) == Pad2(n \div 100) \o Pad2(n % 100)

\* until.strftime("%Y%m%dT0000Z")
Strftime(until) ==
    Pad4(until.y) \o Pad2(until.m) \o Pad2(until.d) \o <<"T", "0", "0", "0", "0", "Z">>

Aborted == [kind |-> "req"]         \* req() raised: the handler stops silently
Returned(s) == [kind |-> "str", s |-> s]
Piece(s) == [ok |-> TRUE, s |-> s]
NoPiece == [ok |-> FALSE]

\* the rule string of "no repeat"
SentinelRule_daily == <<"F", "R", "E", "Q", "=", "D", "A", "I", "L", "Y">>

SentinelRule == <<"F", "R", "E", "Q", "=", "D", "A", "I", "L", "Y", ";", "C", "O", "U", "N", "T", "=", "1">>

\* if interval > 1: rrulestr += f";INTERVAL={interval}"
IntervalPart_always(interval) == <<";", "I", "N", "T", "E", "R", "V", "A", "L", "=">> \o PyStr(interval)

IntervalPart(interval) ==
    IF interval > 1 THEN <<";", "I", "N", "T", "E", "R", "V", "A", "L", "=">> \o PyStr(interval) ELSE <<>>

\* the BY* fields of the chosen branch, or the req() that stops the call
ByPart(f) ==
    IF f.freq = S_WEEKLY THEN
        IF ~required(f.byweekday_weekly) THEN NoPiece
        ELSE Piece(<<";", "B", "Y", "D", "A", "Y", "=">> \o Join(f.byweekday_weekly, <<",">>))
    ELSE IF f.freq = S_MONTHLY THEN
        IF f.onday_monthly = S_weekday THEN
            IF ~required(f.byweekday_ord_monthly) \/ ~required(f.byweekday_monthly)
            THEN NoPiece
            ELSE Piece(<<";", "B", "Y", "D", "A", "Y", "=">> \o f.byweekday_ord_monthly \o f.byweekday_monthly)
        ELSE
            IF ~required(f.bymonthday_monthly) THEN NoPiece
            ELSE Piece(<<";", "B", "Y", "M", "O", "N", "T", "H", "D", "A", "Y", "=">> \o f.bymonthday_monthly)
    ELSE IF f.freq = S_YEARLY THEN
        IF f.onday_yearly = S_weekday THEN
            IF \/ ~required(f.byweekday_ord_yearly)
               \/ ~required(f.byweekday_yearly)
               \/ ~required(f.bymonth_byweekday_yearly)
            THEN NoPiece
            ELSE Piece(<<";", "B", "Y", "D", "A", "Y", "=">> \o f.byweekday_ord_yearly \o f.byweekday_yearly
                       \o <<";", "B", "Y", "M", "O", "N", "T", "H", "=">> \o f.bymonth_byweekday_yearly)
        ELSE
            IF ~required(f.bymonth_yearly) \/ ~required(f.bymonthday_yearly)
            THEN NoPiece
            ELSE Piece(<<";", "B", "Y", "M", "O", "N", "T", "H", "=">> \o f.bymonth_yearly
                       \o <<";", "B", "Y", "M", "O", "N", "T", "H", "D", "A", "Y", "=">> \o f.bymonthday_yearly)
    ELSE Piece(<<>>)                \* nothing for freq == "DAILY"

\* the end of the rule, or the req() that stops the call
EndPart(f) ==
    IF f.end = S_UNTIL THEN
        IF ~required_date(f.until) THEN NoPiece
        ELSE Piece(<<";", "U", "N", "T", "I", "L", "=">> \o Strftime(f.until))
    ELSE IF f.end = S_COUNT THEN
        IF ~integer(f.count) THEN NoPiece
        ELSE Piece(<<";", "C", "O", "U", "N", "T", "=">> \o PyStr(f.count.v))
    ELSE Piece(<<>>)                \* nothing for end == "NEVER"

\* generate_rrulestr with the validator add_cashflow_series passes in: its
\* rules read the very inputs that are passed as arguments
generate_rrulestr(f) ==
    IF ~required(f.freq) THEN Aborted
    ELSE IF f.freq = S_NEVER THEN Returned(SentinelRule)
    ELSE IF ~integer(f.interval) THEN Aborted
    ELSE LET by == ByPart(f)
             end == EndPart(f)
         IN IF ~by.ok \/ ~end.ok THEN Aborted
            ELSE Returned(<<"F", "R", "E", "Q", "=">> \o f.freq \o IntervalPart(f.interval.v)
                          \o by.s \o end.s)

----------------------------------------------------------------------------
(* Recurrence codec: dateutil's rrulestr, as parse_rrulestr calls it *)

Upper(c) ==
    CASE c = "a" -> "A" [] c = "b" -> "B" [] c = "c" -> "C" [] c = "d" -> "D"
      [] c = "e" -> "E" [] c = "f" -> "F" [] c = "g" -> "G" [] c = "h" -> "H"
      [] c = "i" -> "I" [] c = "j" -> "J" [] c = "k" -> "K" [] c = "l" -> "L"
      [] c = "m" -> "M" [] c = "n" -> "N" [] c = "o" -> "O" [] c = "p" -> "P"
      [] c = "q" -> "Q" [] c = "r" -> "R" [] c = "s" -> "S" [] c = "t" -> "T"
      [] c = "u" -> "U" [] c = "v" -> "V" [] c = "w" -> "W" [] c = "x" -> "X"
      [] c = "y" -> "Y" [] c = "z" -> "Z" [] OTHER -> c

\* s.upper()
UpperStr(s) == [i \in 1..Len(s) |-> Upper(s[i])]

\* int(s) as a plain integer
IntOf(r) ==
    IF ~r.ok THEN ValueError
    ELSE [ok |-> TRUE, v |-> (IF r.neg THEN 0 - r.mag ELSE r.mag) \div 100]

PyIntVal(s) == IntOf(PyInt(s))

IntsOf(xs) ==
    IF \E i \in 1..Len(xs) : ~PyIntVal(xs[i]).ok THEN ValueError
    ELSE [ok |-> TRUE, v |-> [i \in 1..Len(xs) |-> PyIntVal(xs[i]).v]]

\* [int(x) for x in value.split(",")]
IntList(value) == IntsOf(SplitOn(value, ","))

\* rrulestr._freq_map: the value of FREQ as dateutil's constant
FreqNames ==
    <<S_YEARLY, S_MONTHLY, S_WEEKLY, S_DAILY, <<"H", "O", "U", "R", "L", "Y">>, <<"M", "I", "N", "U", "T", "E", "L", "Y">>,
      <<"S", "E", "C", "O", "N", "D", "L", "Y">>>>

\* rrulestr._weekday_map
WeekdayNames == <<S_MO, <<"T", "U">>, <<"W", "E">>, <<"T", "H">>, S_FR, <<"S", "A">>, <<"S", "U">>>>

\* position of x in names, counted from 0, or -1
IndexIn(names, x) ==
    IF \E i \in 1..Len(names) : names[i] = x
    THEN (CHOOSE i \in 1..Len(names) : names[i] = x) - 1
    ELSE 0 - 1

YEARLY == IndexIn(FreqNames, S_YEARLY)
MONTHLY == IndexIn(FreqNames, S_MONTHLY)
WEEKLY == IndexIn(FreqNames, S_WEEKLY)
DAILY == IndexIn(FreqNames, S_DAILY)

DaysIn(y, m) ==
    IF m \in {4, 6, 9, 11} THEN 30
    ELSE IF m # 2 THEN 31
    ELSE IF y % 4 = 0 /\ (y % 100 # 0 \/ y % 400 = 0) THEN 29 ELSE 28

DateOf(y, m, d) ==
    IF y < 1 \/ m \notin 1..12 \/ d < 1 \/ d > DaysIn(y, m) THEN ValueError
    ELSE [ok |-> TRUE, v |-> DateVal(y, m, d)]

\* the time of day after the date: nothing, T, THHMM or THHMMSS
TimeOk(body) ==
    \/ body = <<>>
    \/ body = <<"T">>
    \/ /\ body[1] = "T"
       /\ Len(body) \in {5, 7}
       /\ AllDigits(Tail(body))
       /\ DigitsVal(SubSeq(body, 2, 3)) < 24
       /\ DigitsVal(SubSeq(body, 4, 5)) < 60
       /\ Len(body) = 7 => DigitsVal(SubSeq(body, 6, 7)) < 60

\* s without the Z that may end it
DropZ(s) == IF s # <<>> /\ s[Len(s)] = "Z" THEN SubSeq(s, 1, Len(s) - 1) ELSE s

\* parser.parse of an UNTIL value written YYYYMMDD, optionally followed by
\* THHMM or THHMMSS and Z (the forms a rule string carries)
ParseUntil(value) ==
    IF Len(value) < 8 THEN ValueError
    ELSE IF ~AllDigits(SubSeq(value, 1, 8)) THEN ValueError
    ELSE IF Len(value) = 9 /\ value[9] = "Z" THEN ValueError
    ELSE IF ~TimeOk(DropZ(SubSeq(value, 9, Len(value)))) THEN ValueError
    ELSE DateOf(DigitsVal(SubSeq(value, 1, 4)), DigitsVal(SubSeq(value, 5, 6)),
                DigitsVal(SubSeq(value, 7, 8)))

\* weekdays[self._weekday_map[w]](n); n.none is n = None
WeekdayOf(w, n) ==
    IF w < 0 \/ ~n.ok THEN ValueError              \* KeyError, int()
    ELSE IF ~n.none /\ n.v = 0 THEN ValueError      \* weekday(n=0)
    ELSE [ok |-> TRUE, v |-> [w |-> w, n |-> n.v]]

NoOrd == [ok |-> TRUE, none |-> TRUE, v |-> 0]

Ord(r) == IF r.ok THEN [ok |-> TRUE, none |-> FALSE, v |-> r.v] ELSE r

\* n = wday[:i] or None; w = wday[i:]
WeekdayAt(wday, i) ==
    WeekdayOf(IndexIn(WeekdayNames, SubSeq(wday, i + 1, Len(wday))),
              IF i = 0 THEN NoOrd ELSE Ord(PyIntVal(SubSeq(wday, 1, i))))

\* w = splt[0]; n = int(splt[1][:-1])
WeekdayParen(splt) ==
    WeekdayOf(IndexIn(WeekdayNames, splt[1]),
              Ord(PyIntVal(SubSeq(splt[2], 1, Len(splt[2]) - 1))))

\* where "for i in range(len(wday))" stops: at the first character that is
\* no sign and no digit, or at the last index when nothing breaks the loop
LoopEnd(wday) ==
    IF \E k \in 1..Len(wday) : wday[k] \notin Digits \cup {"+", "-"}
    THEN (CHOOSE k \in 1..Len(wday) :
              /\ wday[k] \notin Digits \cup {"+", "-"}
              /\ \A j \in 1..(k - 1) : wday[j] \in Digits \cup {"+", "-"}) - 1
    ELSE Len(wday) - 1

\* one item of BYDAY, written +1MO, -1MO, 1MO, MO or MO(+1): [w, n], n = 0
\* for none
ParseWeekday(wday) ==
    IF Contains(wday, "(") THEN WeekdayParen(SplitOn(wday, "("))
    ELSE IF wday = <<>> THEN ValueError
    ELSE WeekdayAt(wday, LoopEnd(wday))

WeekdaysOf(xs) ==
    IF \E i \in 1..Len(xs) : ~ParseWeekday(xs[i]).ok THEN ValueError
    ELSE [ok |-> TRUE, v |-> [i \in 1..Len(xs) |-> ParseWeekday(xs[i]).v]]

WeekdayList(value) == WeekdaysOf(SplitOn(value, ","))

IntKeys == {<<"I", "N", "T", "E", "R", "V", "A", "L">>, S_COUNT}

IntListKeys ==
    {<<"B", "Y", "S", "E", "T", "P", "O", "S">>, <<"B", "Y", "M", "O", "N", "T", "H">>, <<"B", "Y", "M", "O", "N", "T", "H", "D", "A", "Y">>, <<"B", "Y", "Y", "E", "A", "R", "D", "A", "Y">>, <<"B", "Y", "E", "A", "S", "T", "E", "R">>,
     <<"B", "Y", "W", "E", "E", "K", "N", "O">>, <<"B", "Y", "H", "O", "U", "R">>, <<"B", "Y", "M", "I", "N", "U", "T", "E">>, <<"B", "Y", "S", "E", "C", "O", "N", "D">>}

S_FREQ == <<"F", "R", "E", "Q">>
S_WKST == <<"W", "K", "S", "T">>
S_BYDAY == <<"B", "Y", "D", "A", "Y">>
S_BYWEEKDAY == <<"B", "Y", "W", "E", "E", "K", "D", "A", "Y">>

KwKeys == IntKeys \cup IntListKeys \cup {S_FREQ, S_UNTIL, S_WKST, S_BYWEEKDAY}

\* no keyword argument yet: each is <<>> (absent) or <<value>>
NoKwargs == [k \in KwKeys |-> <<>>]

\* a name of _freq_map or _weekday_map as its number
Named(i) == IF i < 0 THEN ValueError ELSE [ok |-> TRUE, v |-> i]

\* getattr(self, "_handle_" + name)(rrkwargs, name, value)
Handle(name, value) ==
    IF name \in IntKeys THEN PyIntVal(value)
    ELSE IF name \in IntListKeys THEN IntList(value)
    ELSE IF name = S_FREQ THEN Named(IndexIn(FreqNames, value))
    ELSE IF name = S_UNTIL THEN ParseUntil(value)
    ELSE IF name = S_WKST THEN Named(IndexIn(WeekdayNames, value))
    ELSE IF name \in {S_BYDAY, S_BYWEEKDAY} THEN WeekdayList(value)
    ELSE ValueError                     \* no such handler

\* for pair in value.split(";"): name, value = pair.split("=") ...
RECURSIVE HandlePairs(_, _, _)

Handled(pairs, i, kw, key, h) ==
    IF ~h.ok THEN ValueError
    ELSE HandlePairs(pairs, i + 1, [kw EXCEPT ![key] = <<h.v>>])

HandlePair(pairs, i, kw, nv) ==
    IF Len(nv) # 2 THEN ValueError      \* unpacking
    ELSE Handled(pairs, i, kw, IF nv[1] = S_BYDAY THEN S_BYWEEKDAY ELSE nv[1],
                 Handle(nv[1], nv[2]))

HandlePairs(pairs, i, kw) ==
    IF i > Len(pairs) THEN [ok |-> TRUE, kw |-> kw]
    ELSE HandlePair(pairs, i, kw, SplitOn(pairs[i], "="))

\* the elements of a set of integers, ascending
RECURSIVE Sorted(_)
Sorted(S) ==
    IF S = {} THEN <<>>
    ELSE LET lo == CHOOSE x \in S : \A y \in S : x <= y
         IN <<lo>> \o Sorted(S \ {lo})

Elems(s) == {s[i] : i \in 1..Len(s)}

Opt(kw, key) == IF kw[key] = <<>> THEN <<>> ELSE kw[key][1]

Raised(e) == [exc |-> e]

\* rrule.__init__ once the defaults are in; an attribute that is None or
\* empty is <<>>
RruleAttrs(kw, freq, bymonth, bymonthday, byweekday) ==
    [exc |-> "none",
     ruleset |-> FALSE,
     freq |-> freq,
     interval |-> IF kw[<<"I", "N", "T", "E", "R", "V", "A", "L">>] = <<>> THEN 1 ELSE kw[<<"I", "N", "T", "E", "R", "V", "A", "L">>][1],
     count |-> IF kw[S_COUNT] = <<>> THEN None ELSE IntVal(kw[S_COUNT][1]),
     until |-> IF kw[S_UNTIL] = <<>> THEN None ELSE kw[S_UNTIL][1],
     wkst |-> IF kw[S_WKST] = <<>> THEN 0 ELSE kw[S_WKST][1],
     bysetpos |-> Opt(kw, <<"B", "Y", "S", "E", "T", "P", "O", "S">>),
     bymonth |-> Sorted(Elems(bymonth)),
     bymonthday |-> Sorted({x \in Elems(bymonthday) : x > 0}),
     bynmonthday |-> Sorted({x \in Elems(bymonthday) : x < 0}),
     byyearday |-> Sorted(Elems(Opt(kw, <<"B", "Y", "Y", "E", "A", "R", "D", "A", "Y">>))),
     byweekno |-> Sorted(Elems(Opt(kw, <<"B", "Y", "W", "E", "E", "K", "N", "O">>))),
     byeaster |-> Sorted(Elems(Opt(kw, <<"B", "Y", "E", "A", "S", "T", "E", "R">>))),
     byweekday |-> Sorted({byweekday[j].w : j \in
                      {j \in 1..Len(byweekday) :
                          byweekday[j].n = 0 \/ freq > MONTHLY}}),
     bynweekday |-> {<<byweekday[j].w, byweekday[j].n>> : j \in
                      {j \in 1..Len(byweekday) :
                          ~(byweekday[j].n = 0 \/ freq > MONTHLY)}}]

\* no BYWEEKNO, BYYEARDAY, BYMONTHDAY, BYDAY, BYEASTER: the rule takes the
\* missing fields from its dtstart
NoneGiven(kw) ==
    /\ kw[<<"B", "Y", "W", "E", "E", "K", "N", "O">>] = <<>>
    /\ kw[<<"B", "Y", "Y", "E", "A", "R", "D", "A", "Y">>] = <<>>
    /\ kw[<<"B", "Y", "M", "O", "N", "T", "H", "D", "A", "Y">>] = <<>>
    /\ kw[S_BYWEEKDAY] = <<>>
    /\ kw[<<"B", "Y", "E", "A", "S", "T", "E", "R">>] = <<>>

\* rrule.__init__ on the keyword arguments; start is what the rule reads
\* from its dtstart (datetime.now() when the string names none)
RruleInit(kw, start) ==
    IF kw[S_FREQ] = <<>> THEN Raised("TypeError")  \* freq is a required argument
    ELSE IF \E i \in 1..Len(Opt(kw, <<"B", "Y", "S", "E", "T", "P", "O", "S">>)) :
               \/ Opt(kw, <<"B", "Y", "S", "E", "T", "P", "O", "S">>)[i] = 0
               \/ Opt(kw, <<"B", "Y", "S", "E", "T", "P", "O", "S">>)[i] < 0 - 366
               \/ Opt(kw, <<"B", "Y", "S", "E", "T", "P", "O", "S">>)[i] > 366
    THEN Raised("ValueError")
    ELSE RruleAttrs(
             kw, kw[S_FREQ][1],
             IF NoneGiven(kw) /\ kw[S_FREQ][1] = YEARLY /\ kw[<<"B", "Y", "M", "O", "N", "T", "H">>] = <<>>
             THEN <<start.month>> ELSE Opt(kw, <<"B", "Y", "M", "O", "N", "T", "H">>),
             IF NoneGiven(kw) /\ kw[S_FREQ][1] \in {YEARLY, MONTHLY}
             THEN <<start.day>> ELSE Opt(kw, <<"B", "Y", "M", "O", "N", "T", "H", "D", "A", "Y">>),
             IF NoneGiven(kw) /\ kw[S_FREQ][1] = WEEKLY
             THEN <<[w |-> start.weekday, n |-> 0]>> ELSE Opt(kw, S_BYWEEKDAY))

\* s.startswith(prefix)
StartsWith(s, prefix) == Len(s) >= Len(prefix) /\ SubSeq(s, 1, Len(prefix)) = prefix

\* date.toordinal()
RECURSIVE DaysBeforeMonth(_, _)
DaysBeforeMonth(y, m) == IF m = 1 THEN 0 ELSE DaysBeforeMonth(y, m - 1) + DaysIn(y, m - 1)

ToOrdinal(dt) ==
    (dt.y - 1) * 365 + (dt.y - 1) \div 4 - (dt.y - 1) \div 100 + (dt.y - 1) \div 400
    + DaysBeforeMonth(dt.y, dt.m) + dt.d

\* what the defaults of a rule read from its dtstart
StartOf(dt) == [month |-> dt.m, day |-> dt.d, weekday |-> (ToOrdinal(dt) - 1) % 7]

RruleOf(kw, start) ==
    IF ~kw.ok THEN Raised("ValueError") ELSE RruleInit(kw.kw, start)

\* name, value = line.split(":"), the name being RRULE
RruleParts(parts, start) ==
    IF Len(parts) # 2 \/ parts[1] # <<"R", "R", "U", "L", "E">> THEN Raised("ValueError")
    ELSE RruleOf(HandlePairs(SplitOn(parts[2], ";"), 1, NoKwargs), start)

\* rrulestr._parse_rfc_rrule: an optional "RRULE:" in front, then the pairs
ParseRfcRrule(line, start) ==
    RruleParts(IF Contains(line, ":") THEN SplitOn(line, ":") ELSE <<<<"R", "R", "U", "L", "E">>, line>>,
               start)

\* name, value = line.split(":", 1) at the colon in position c; parms = name.split(";")
PropertyAt(line, c, parms) ==
    [name |-> parms[1], parms |-> Tail(parms), value |-> SubSeq(line, c + 1, Len(line))]

FirstColon(line) ==
    CHOOSE i \in 1..Len(line) : line[i] = ":" /\ \A j \in 1..(i - 1) : line[j] # ":"

\* a line of a multi-line string: its property name, parameters and value
PropertyOf(line) ==
    IF ~Contains(line, ":") THEN [name |-> <<"R", "R", "U", "L", "E">>, parms |-> <<>>, value |-> line]
    ELSE PropertyAt(line, FirstColon(line),
                    SplitOn(SubSeq(line, 1, FirstColon(line) - 1), ";"))

\* the exception of the first result that has one, or "none"
FirstExc(rs) ==
    IF \A i \in 1..Len(rs) : rs[i].exc = "none" THEN "none"
    ELSE rs[CHOOSE i \in 1..Len(rs) :
                /\ rs[i].exc # "none"
                /\ \A j \in 1..(i - 1) : rs[j].exc = "none"].exc

DatesOf(xs) ==
    IF \E i \in 1..Len(xs) : ~ParseUntil(xs[i]).ok THEN ValueError
    ELSE [ok |-> TRUE, v |-> [i \in 1..Len(xs) |-> ParseUntil(xs[i]).v]]

\* dates of RDATE, EXDATE and DTSTART, written like the value of UNTIL and
\* without parameters
DateValues(p) == IF p.parms # <<>> THEN ValueError ELSE DatesOf(SplitOn(p.value, ","))

IsRrule(p) == p.name = <<"R", "R", "U", "L", "E">>
IsExrule(p) == p.name = <<"E", "X", "R", "U", "L", "E">>
IsRdate(p) == p.name = <<"R", "D", "A", "T", "E">>
IsExdate(p) == p.name = <<"E", "X", "D", "A", "T", "E">>
IsDtstart(p) == p.name = <<"D", "T", "S", "T", "A", "R", "T">>

\* what the loop over the lines raises on line p
ScanBad(p, dates) ==
    \/ ~(IsRrule(p) \/ IsExrule(p) \/ IsRdate(p) \/ IsExdate(p) \/ IsDtstart(p))
    \/ (IsRrule(p) \/ IsExrule(p)) /\ p.parms # <<>>
    \/ IsExdate(p) /\ ~dates.ok
    \/ IsDtstart(p) /\ (~dates.ok \/ Len(dates.v) # 1)

\* the rules and dates are read in this order: RRULE, RDATE, EXRULE
SetOf(rules, rdates, exrules) ==
    IF FirstExc(rules \o rdates \o exrules) # "none"
    THEN Raised(FirstExc(rules \o rdates \o exrules))
    ELSE [exc |-> "none", ruleset |-> TRUE]

DateResult(dates) == IF dates.ok THEN [exc |-> "none"] ELSE Raised("ValueError")

\* the end of _parse_rfc: a rule set, or the one rule
RuleOrSet(isset, rrulevals, rules, rdates) ==
    IF isset
    THEN SetOf(SubSeq(rules, 1, Len(rrulevals)), rdates,
               SubSeq(rules, Len(rrulevals) + 1, Len(rules)))
    ELSE IF rrulevals = <<>> THEN Raised("IndexError")   \* rrulevals[0]
    ELSE rules[1]

ParseValues(isset, rrulevals, exrulevals, rdates, start) ==
    RuleOrSet(isset, rrulevals,
              [i \in 1..(Len(rrulevals) + Len(exrulevals)) |->
                  ParseRfcRrule((rrulevals \o exrulevals)[i], start)],
              rdates)

ParseProps(props, dates, starts, today) ==
    IF \E i \in 1..Len(props) : ScanBad(props[i], dates[i]) THEN Raised("ValueError")
    ELSE ParseValues(
             \/ Len(SelectSeq(props, IsRrule)) > 1
             \/ \E i \in 1..Len(props) :
                    IsRdate(props[i]) \/ IsExrule(props[i]) \/ IsExdate(props[i]),
             [i \in 1..Len(SelectSeq(props, IsRrule)) |-> SelectSeq(props, IsRrule)[i].value],
             [i \in 1..Len(SelectSeq(props, IsExrule)) |-> SelectSeq(props, IsExrule)[i].value],
             [i \in 1..Len(SelectSeq(props, IsRdate)) |->
                 DateResult(DateValues(SelectSeq(props, IsRdate)[i]))],
             IF starts = <<>> THEN today
             ELSE StartOf(DateValues(starts[Len(starts)]).v[1]))

ParseLines(props, today) ==
    ParseProps(props, [i \in 1..Len(props) |-> DateValues(props[i])],
               SelectSeq(props, IsDtstart), today)

\* the single line takes the short way when it has no ":" or starts with
\* "RRULE:"; every other string goes line by line
ParseRfc(s, lines, today) ==
    IF lines = <<>> THEN Raised("ValueError")        \* empty string
    ELSE IF Len(lines) = 1 /\ (~Contains(s, ":") \/ StartsWith(s, <<"R", "R", "U", "L", "E", ":">>))
    THEN ParseValues(FALSE, lines, <<>>, <<>>, today)
    ELSE ParseLines([i \in 1..Len(lines) |-> PropertyOf(lines[i])], today)

Split(s, today) == ParseRfc(s, SplitWS(s), today)

\* rrule.rrulestr(s): one rule is an rrule, anything more is an rruleset.
\* today is datetime.now(), the dtstart of a string that names none.
rrulestr(s, today) == Split(UpperStr(s), today)

----------------------------------------------------------------------------
(* Recurrence codec: parse_rrulestr *)

\* constants.BYWEEKDAY_ORD_CHOICES.keys()
BYWEEKDAY_ORD_CHOICES == {PyStr(n) : n \in {1, 2, 3, 4, 0 - 1, 0 - 2}}

\* constants.BYMONTHDAY_MONTHLY_CHOICES.keys()
BYMONTHDAY_MONTHLY_CHOICES == {PyStr(n) : n \in (1..28) \cup {0 - 2, 0 - 1}}

Only(S) == CHOOSE x \in S : TRUE

Classified(obj, type) == [exc |-> "none", obj |-> obj, type |-> type]

Advanced == Classified(None, "ADVANCED")

\* the type returned for a rule with one BYMONTH and one ordinal weekday
YearlyByWeekday == "BYWEEKDAY_WEEKLY"

\* parse_rrulestr from the rule object on
ClassifyRrule(o) ==
    IF o.exc # "none" THEN o                        \* the error propagates
    ELSE IF o.ruleset THEN Advanced
    ELSE IF \/ o.wkst # 0
            \/ o.bysetpos # <<>>
            \/ o.byyearday # <<>>
            \/ o.byweekno # <<>>
         THEN Advanced
    ELSE IF o.freq = DAILY THEN
         IF \/ o.byweekday # <<>>
            \/ o.bynweekday # {}
            \/ o.bymonthday # <<>>
            \/ o.bynmonthday # <<>>
            \/ o.bymonth # <<>>
         THEN Advanced
         ELSE Classified(o, "DAILY")
    ELSE IF o.freq = WEEKLY THEN
         IF \/ o.byweekday = <<>>
            \/ o.bynweekday # {}
            \/ o.bymonthday # <<>>
            \/ o.bynmonthday # <<>>
            \/ o.bymonth # <<>>
         THEN Advanced
         ELSE Classified(o, "BYWEEKDAY_WEEKLY")
    ELSE IF o.freq = MONTHLY THEN
         IF o.byweekday # <<>> \/ o.bymonth # <<>> THEN Advanced
         ELSE IF o.bymonthday # <<>> \/ o.bynmonthday # <<>> THEN
              IF \/ o.bynweekday # {}
                 \/ /\ o.bymonthday # <<>>
                    /\ \/ Len(o.bymonthday) > 1
                       \/ PyStr(o.bymonthday[1]) \notin BYMONTHDAY_MONTHLY_CHOICES
                 \/ /\ o.bynmonthday # <<>>
                    /\ \/ Len(o.bynmonthday) > 1
                       \/ PyStr(o.bynmonthday[1]) \notin BYMONTHDAY_MONTHLY_CHOICES
              THEN Advanced
              ELSE Classified(o, "BYMONTHDAY_MONTHLY")
         ELSE IF o.bynweekday # {} THEN
              IF \/ Cardinality(o.bynweekday) > 1
                 \/ PyStr(Only(o.bynweekday)[2]) \notin BYWEEKDAY_ORD_CHOICES
              THEN Advanced
              ELSE Classified(o, "BYWEEKDAY_MONTHLY")
         ELSE Advanced
    \* YEARLY (and whatever frequency is left)
    ELSE IF \/ o.byweekday # <<>>
            \/ o.bynmonthday # <<>>
            \/ o.bymonth = <<>>
            \/ Len(o.bymonth) > 1
         THEN Advanced
    ELSE IF o.bymonthday # <<>> THEN
         IF Len(o.bymonthday) > 1 \/ o.bynweekday # {} THEN Advanced
         ELSE Classified(o, "BYMONTHDAY_YEARLY")
    ELSE IF o.bynweekday # {} THEN
         IF Cardinality(o.bynweekday) > 1 THEN Advanced
         ELSE Classified(o, YearlyByWeekday)
    ELSE Advanced

\* parse_rrulestr; today is the clock dateutil reads for the default dtstart
parse_rrulestr(s, today) == ClassifyRrule(rrulestr(s, today))

\* edit_row on a stored rule: the sentinel is "no repeat", anything else is
\* what parse_rrulestr says
ClassifyStored(s, ret) ==
    IF s = SentinelRule THEN "NEVER"
    ELSE IF ret.exc # "none" THEN ret.exc
    ELSE ret.type

----------------------------------------------------------------------------
(* Recurrence codec: validate_rrule *)

\* sub in s
IsSubstring(sub, s) ==
    \E i \in 1..(Len(s) - Len(sub) + 1) : SubSeq(s, i, i + Len(sub) - 1) = sub

\* the texts validate_rrule looks for in the string as written
InvalidParts ==
    { <<"F", "R", "E", "Q", "=", "S", "E", "C", "O", "N", "D", "L", "Y">>, <<"F", "R", "E", "Q", "=", "M", "I", "N", "U", "T", "E", "L", "Y">>, <<"F", "R", "E", "Q", "=", "H", "O", "U", "R", "L", "Y">>,
      <<"B", "Y", "H", "O", "U", "R", "=">>, <<"B", "Y", "M", "I", "N", "U", "T", "E", "=">>, <<"B", "Y", "S", "E", "C", "O", "N", "D", "=">> }

\* what validate_rrule returns: an error text, or "None" for None
Result(ret) == [exc |-> "none", ret |-> ret]

\* no rule at all: the argument None
NoRule == [kind |-> "none"]

\* validate_rrule once rrulestr has run: ValueError and AssertionError are
\* caught, any other exception leaves the function; a rule set has no
\* _byeaster attribute
Validated(o) ==
    IF o.exc = "ValueError" THEN Result("invalid rrulestr")
    ELSE IF o.exc # "none" THEN o
    ELSE IF o.ruleset THEN Raised("AttributeError")
    ELSE IF o.byeaster # <<>> THEN Result("invalid rrulestr")
    ELSE Result("None")

\* validate_rrule on a rule string, or on None
validate_rrule(r, today) ==
    IF r = NoRule THEN Result("Required")
    ELSE IF \E invalid \in InvalidParts : IsSubstring(invalid, r.s)
    THEN Result("invalid rrulestr")
    ELSE Validated(rrulestr(r.s, today))

----------------------------------------------------------------------------
(* The forecast engine: utils.generate_forecast *)
(* A date is its ordinal (date.toordinal()); an amount is a number of      *)
(* hundredths, so that sums are exact and round(2) has nothing left to do. *)

\* the same sequence, held as its computed elements: a sequence written
\* [i \in 1..n |-> e] is otherwise recomputed at every reading
Computed(s) == s \o <<>>

S_override == <<"_", "o", "v", "e", "r", "r", "i", "d", "e">>

\* s.endswith(suffix)
EndsWith(s, suffix) ==
    Len(s) >= Len(suffix) /\ SubSeq(s, Len(s) - Len(suffix) + 1, Len(s)) = suffix

\* s.removesuffix(suffix)
RemoveSuffix(s, suffix) ==
    IF suffix # <<>> /\ EndsWith(s, suffix)
    THEN SubSeq(s, 1, Len(s) - Len(suffix)) ELSE s

\* the days between two occurrences of a DAILY rule, or of a WEEKLY rule
\* that recurs on the weekday of its dtstart
Period(o) == o.interval * (IF o.freq = WEEKLY THEN 7 ELSE 1)

\* rrule.between(after, before, inc=True) for such a rule: every Period
\* days from the dtstart on, at most count times, not after until
Occurs(o, start, d) ==
    /\ d >= start
    /\ (d - start) % Period(o) = 0
    /\ o.count # None => (d - start) \div Period(o) < o.count.v
    /\ o.until # None => d <= ToOrdinal(o.until)

Between_exclusive(o, start, after, before) ==
    Sorted({d \in (after + 1)..(before - 1) : Occurs(o, start, d)})

Between(o, start, after, before) ==
    Sorted({d \in after..before : Occurs(o, start, d)})

generate_occurences(row, after, before) ==
    Between(rrulestr(row.rrule, StartOf(row.dtstart)),
            ToOrdinal(row.dtstart), after, before)

\* one row per date of the list
OccurrenceRows(row, dates) ==
    [j \in 1..Len(dates) |->
        [desc |-> row.desc, accounts |-> row.accounts, date |-> dates[j]]]

\* apply(generate_occurences), drop dtstart and rrule, explode("date");
\* an entry with an empty list leaves no row
Exploded(cfs, after, before) ==
    Flatten([i \in 1..Len(cfs) |->
                OccurrenceRows(cfs[i], generate_occurences(cfs[i], after, before))])

IsOverride(row) == EndsWith(row.desc, S_override)

IsRegular(row) == ~EndsWith(row.desc, S_override)

\* what process_override returns: the row under its base description
process_override(row) == [row EXCEPT !.desc = RemoveSuffix(row.desc, S_override)]

\* regular.drop(regular.index[(desc == row.desc) & (date == row.date)])
DropMatching_none(regular, row) == regular

DropMatching(regular, row) ==
    SelectSeq(regular, LAMBDA r : ~(r.desc = row.desc /\ r.date = row.date))

\* overrides.apply(process_override, axis=1), as it changes regular
RECURSIVE RegularAfter(_, _, _)
RegularAfter(regular, overrides, i) ==
    IF i > Len(overrides) THEN regular
    ELSE RegularAfter(DropMatching(regular, process_override(overrides[i])),
                      overrides, i + 1)

\* pd.concat([regular, overrides.apply(process_override, axis=1)])
Concat(regular, overrides) ==
    RegularAfter(regular, overrides, 1)
    \o [i \in 1..Len(overrides) |-> process_override(overrides[i])]

\* the rows that count: the regular rows left, then the overrides
Resolved_positional(rows) ==
    LET keep == {i \in 1..Len(rows) :
                    /\ IsRegular(rows[i])
                    /\ \A j \in (i + 1)..Len(rows) :
                          IsOverride(rows[j]) =>
                              ~(rows[i].desc = process_override(rows[j]).desc
                                /\ rows[i].date = rows[j].date)}
    IN [k \in 1..Cardinality(keep) |-> rows[Sorted(keep)[k]]]
       \o [i \in 1..Len(SelectSeq(rows, IsOverride)) |->
              process_override(SelectSeq(rows, IsOverride)[i])]

Resolved(rows) == Concat(SelectSeq(rows, IsRegular), SelectSeq(rows, IsOverride))

\* desc.str.cat(accounts, sep=": ")
ActivityPiece(row) == row.desc \o <<":", " ">> \o row.accounts

ActivityPieces(rows) == [i \in 1..Len(rows) |-> ActivityPiece(rows[i])]

\* groupby("date"): "; ".join of the pieces of the rows of one date
ActivityOn(rows, d) ==
    Join(ActivityPieces(SelectSeq(rows, LAMBDA r : r.date = d)), <<";", " ">>)

\* set_index("date")["accounts"].map(split_accounts)
Deltas(rows) ==
    Computed([i \in 1..Len(rows) |->
        [date |-> rows[i].date, accs |-> split_accounts(rows[i].accounts)]])

\* apply(pd.Series): one column per account name of any row
Columns(deltas) == UNION {Keys(deltas[i].accs) : i \in 1..Len(deltas)}

\* a cell of the frame; fillna(0) where the map has no such account
Cell(accs, name) ==
    IF \E j \in 1..Len(accs) : accs[j].name = name
    THEN Num(accs[CHOOSE j \in 1..Len(accs) : accs[j].name = name].amt)
    ELSE 0

Filled(deltas, cols) ==
    Computed([i \in 1..Len(deltas) |->
        [date |-> deltas[i].date,
         vals |-> [c \in cols |-> Cell(deltas[i].accs, c)]]])

\* the place of row i once the rows are in date order
Rank(rows, i) ==
    1 + Cardinality({j \in 1..Len(rows) :
                        \/ rows[j].date < rows[i].date
                        \/ rows[j].date = rows[i].date /\ j < i})

sort_index(rows) ==
    Computed([k \in 1..Len(rows) |->
        rows[CHOOSE i \in 1..Len(rows) : Rank(rows, i) = k]])

RECURSIVE RunningSum(_, _, _)
RunningSum(rows, k, c) ==
    IF k = 0 THEN 0 ELSE RunningSum(rows, k - 1, c) + rows[k].vals[c]

cumsum_none(rows) == rows

cumsum(rows) ==
    Computed([k \in 1..Len(rows) |->
        [date |-> rows[k].date,
         vals |-> [c \in DOMAIN rows[k].vals |-> RunningSum(rows, k, c)]]])

RowsAt(rows, keep) ==
    Computed([k \in 1..Cardinality(keep) |-> rows[Sorted(keep)[k]]])

\* drop_duplicates(subset="date", keep="last")
drop_duplicates_first(rows) ==
    RowsAt(rows, {i \in 1..Len(rows) : \A j \in 1..(i - 1) : rows[j].date # rows[i].date})

drop_duplicates(rows) ==
    RowsAt(rows, {i \in 1..Len(rows) : \A j \in (i + 1)..Len(rows) : rows[j].date # rows[i].date})

\* the chain map, apply, fillna, sort_index, cumsum, drop_duplicates, round
Ledger(deltas) ==
    drop_duplicates(cumsum(sort_index(Filled(deltas, Columns(deltas)))))

\* cfs["activity"] = cfs_activity, aligned on the date
WithActivity(ledger, rows) ==
    [i \in 1..Len(ledger) |->
        [date |-> ledger[i].date, vals |-> ledger[i].vals,
         activity |-> ActivityOn(rows, ledger[i].date)]]

Frame(rows) == [exc |-> "none", rows |-> rows]

\* the frame built from the rows that count.  With no row at all the
\* activity assignment receives an empty frame, which pandas either
\* aligns (an empty forecast) or refuses (ValueError), by its version
Outcome(rows, pandas) ==
    IF rows = <<>>
    THEN IF pandas = "refuses" THEN Raised("ValueError") ELSE Frame(<<>>)
    ELSE Frame(WithActivity(Ledger(Deltas(rows)), rows))

\* what generate_forecast returns
generate_forecast(cfs, after, before, pandas) ==
    Outcome(Resolved(Exploded(cfs, after, before)), pandas)

\* what generate_forecast leaves in the table it was given:
\* cfs["date"] = cfs.apply(...) writes a column of date lists into it
DateColumn_consumed(cfs, after, before) ==
    [i \in 1..Len(cfs) |->
        [desc |-> cfs[i].desc, accounts |-> cfs[i].accounts,
         dtstart |-> cfs[i].dtstart, rrule |-> SentinelRule,
         date |-> generate_occurences(cfs[i], after, before)]]

DateColumn(cfs, after, before) ==
    [i \in 1..Len(cfs) |->
        [desc |-> cfs[i].desc, accounts |-> cfs[i].accounts,
         dtstart |-> cfs[i].dtstart, rrule |-> cfs[i].rrule,
         date |-> generate_occurences(cfs[i], after, before)]]

----------------------------------------------------------------------------
(* Accounts codec: the strings and maps the scenarios start from *)

\* what a user can type into the accounts cell, piece by piece
Pieces == {<<"a">>, <<"+">>, <<"-">>, <<".">>, <<"1">>, <<" ">>, S_sum}

PieceSeqs == UNION {[1..n -> Pieces] : n \in 0..MaxLen}

TypedStrings == {Flatten(ps) : ps \in PieceSeqs}

S_checking5 == <<"c", "h", "e", "c", "k", "i", "n", "g", "+", "5">>

\* the strings of test_split_accounts
TestStrings ==
    { <<>>,
      <<"a", "6", "+", "-", "+", "+", "7", ".", "$">>,
      S_checking5 \o <<" ">> \o S_checking5,
      S_checking5 \o <<"\n">> \o Tail(S_checking5) }

TokenChoices ==
    { <<"a", "+", "1">>, <<"a", "-", "2">>, <<"b", "+", "1", ".", "5">>,
      <<"a", "1">>, <<"b", "+", "x">>, S_date \o <<"+", "1">>,
      <<"$", "G", "+", "2">> }

TwoTokenStrings ==
    {t1 \o <<w>> \o t2 : t1 \in TokenChoices, t2 \in TokenChoices, w \in {" ", "\n"}}

\* account names of the add form (a selectize with "create": anything typed)
NameChoices ==
    { <<"a">>, <<"$", "G">>, <<"a", "-", "b">>, <<"a", "+">>, <<"a", " ", "b">> }

\* int amounts 0, 1, -2, 10 and float amounts 0.5, -1.25, 3.0, 0.01
AmtChoices ==
    { [fl |-> FALSE, neg |-> FALSE, mag |-> 0],
      [fl |-> FALSE, neg |-> FALSE, mag |-> 100],
      [fl |-> FALSE, neg |-> TRUE, mag |-> 200],
      [fl |-> FALSE, neg |-> FALSE, mag |-> 1000],
      [fl |-> TRUE, neg |-> FALSE, mag |-> 50],
      [fl |-> TRUE, neg |-> TRUE, mag |-> 125],
      [fl |-> TRUE, neg |-> FALSE, mag |-> 300],
      [fl |-> TRUE, neg |-> FALSE, mag |-> 1] }

Items == [name : NameChoices, amt : AmtChoices]

\* non-empty maps with unique, non-empty, non-reserved names
ValidMaps ==
    {m \in UNION {[1..n -> Items] : n \in 1..MaxMapLen} :
        \A i \in 1..Len(m) : \A j \in 1..Len(m) : i # j => m[i].name # m[j].name}

----------------------------------------------------------------------------
(* Recurrence codec: the selections and rule strings the scenarios start from *)

Date1 == DateVal(2025, 6, 24)
Date2 == DateVal(2030, 1, 5)

\* the form as _reset_ui leaves it
DefaultForm ==
    [t |-> "form",
     freq |-> S_NEVER,
     interval |-> IntVal(1),
     byweekday_weekly |-> <<>>,
     onday_monthly |-> S_monthday,
     byweekday_ord_monthly |-> <<"1">>,
     byweekday_monthly |-> S_MO,
     bymonthday_monthly |-> <<"1">>,
     onday_yearly |-> S_monthday,
     byweekday_ord_yearly |-> <<"1">>,
     byweekday_yearly |-> S_MO,
     bymonth_byweekday_yearly |-> <<"1">>,
     bymonth_yearly |-> <<"1">>,
     bymonthday_yearly |-> <<"1">>,
     end |-> S_NEVER,
     until |-> Date1,
     count |-> IntVal(1)]

Intervals == {None, FloatVal} \cup {IntVal(n) : n \in 0..MaxInterval}

Ends ==
    {[end |-> S_NEVER, until |-> Date1, count |-> IntVal(1)]}
    \cup {[end |-> S_UNTIL, until |-> u, count |-> IntVal(1)] : u \in {None, Date1, Date2}}
    \cup {[end |-> S_COUNT, until |-> Date1, count |-> c] :
              c \in {None, FloatVal} \cup {IntVal(n) : n \in 1..MaxCount}}

WithCommon(f) ==
    {[f EXCEPT !.interval = i, !.end = e.end, !.until = e.until, !.count = e.count] :
        i \in Intervals, e \in Ends}

WeekdaySets == {<<>>, <<S_FR>>, <<S_MO, S_FR>>, <<S_FR, S_MO>>}
OrdChoices == {<<"1">>, <<"-", "1">>, <<"2">>}
MonthdayChoices == {<<"1">>, <<"2", "0">>, <<"-", "1">>}

WeeklyForms ==
    {[DefaultForm EXCEPT !.freq = S_WEEKLY, !.byweekday_weekly = w] : w \in WeekdaySets}

MonthlyForms ==
    {[DefaultForm EXCEPT !.freq = S_MONTHLY, !.bymonthday_monthly = d] :
        d \in MonthdayChoices}
    \cup {[DefaultForm EXCEPT !.freq = S_MONTHLY, !.onday_monthly = S_weekday,
                              !.byweekday_ord_monthly = o, !.byweekday_monthly = w] :
              o \in OrdChoices, w \in {S_MO, S_FR}}

YearlyForms ==
    {[DefaultForm EXCEPT !.freq = S_YEARLY, !.bymonth_yearly = m,
                         !.bymonthday_yearly = d] :
        m \in {<<"2">>, <<"1", "2">>}, d \in {<<"1">>, <<"3", "1">>}}
    \cup {[DefaultForm EXCEPT !.freq = S_YEARLY, !.onday_yearly = S_weekday,
                              !.byweekday_ord_yearly = o, !.byweekday_yearly = w,
                              !.bymonth_byweekday_yearly = m] :
              o \in {<<"1">>, <<"-", "1">>}, w \in {S_MO, S_FR}, m \in {<<"1">>, <<"1", "2">>}}

\* "no repeat" (and no frequency at all) with every other input left as it was
NeverForms ==
    {[f EXCEPT !.freq = q] :
        f \in WeeklyForms \cup MonthlyForms \cup YearlyForms, q \in {S_NEVER, <<>>}}

FormSelections ==
    UNION {WithCommon(f) :
              f \in {[DefaultForm EXCEPT !.freq = S_DAILY]} \cup WeeklyForms
                    \cup MonthlyForms \cup YearlyForms \cup NeverForms}

\* rule strings as an upload or the custom-rule field brings them
RuleChoices ==
    { <<"F", "R", "E", "Q", "=", "H", "O", "U", "R", "L", "Y">>,
      <<"F", "R", "E", "Q", "=", "M", "I", "N", "U", "T", "E", "L", "Y", ";", "B", "Y", "M", "O", "N", "T", "H", "=", "1", ";", "B", "Y", "M", "O", "N", "T", "H", "D", "A", "Y", "=", "1">>,
      <<"f", "r", "e", "q", "=", "d", "a", "i", "l", "y", ";", "b", "y", "h", "o", "u", "r", "=", "1">>,
      <<"F", "R", "E", "Q", "=", "D", "A", "I", "L", "Y", ";", "B", "Y", "H", "O", "U", "R", "=", "1">>,
      <<"F", "R", "E", "Q", "=", "D", "A", "I", "L", "Y", ";", "B", "Y", "M", "I", "N", "U", "T", "E", "=", "1">>,
      <<"F", "R", "E", "Q", "=", "D", "A", "I", "L", "Y", ";", "B", "Y", "S", "E", "C", "O", "N", "D", "=", "1">>,
      <<"F", "R", "E", "Q", "=", "D", "A", "I", "L", "Y", ";", "B", "Y", "E", "A", "S", "T", "E", "R", "=", "0">>,
      <<"f", "r", "e", "q", "=", "d", "a", "i", "l", "y", ";", "b", "y", "e", "a", "s", "t", "e", "r", "=", "1">>,
      <<"F", "R", "E", "Q", "=", "M", "O", "N", "T", "H", "L", "Y", ";", "B", "Y", "M", "O", "N", "T", "H", "D", "A", "Y", "=", "1", ",", "2">>,
      <<"F", "R", "E", "Q", "=", "M", "O", "N", "T", "H", "L", "Y", ";", "B", "Y", "M", "O", "N", "T", "H", "D", "A", "Y", "=", "-", "1", ",", "-", "2">>,
      <<"F", "R", "E", "Q", "=", "M", "O", "N", "T", "H", "L", "Y", ";", "B", "Y", "M", "O", "N", "T", "H", "D", "A", "Y", "=", "-", "1">>,
      <<"F", "R", "E", "Q", "=", "M", "O", "N", "T", "H", "L", "Y", ";", "B", "Y", "M", "O", "N", "T", "H", "D", "A", "Y", "=", "5", ";", "B", "Y", "D", "A", "Y", "=", "1", "M", "O">>,
      <<"F", "R", "E", "Q", "=", "Y", "E", "A", "R", "L", "Y", ";", "B", "Y", "M", "O", "N", "T", "H", "=", "1", ";", "B", "Y", "M", "O", "N", "T", "H", "D", "A", "Y", "=", "1", "5">>,
      <<"F", "R", "E", "Q", "=", "Y", "E", "A", "R", "L", "Y", ";", "B", "Y", "M", "O", "N", "T", "H", "=", "1", ";", "B", "Y", "M", "O", "N", "T", "H", "D", "A", "Y", "=", "-", "1">>,
      <<"F", "R", "E", "Q", "=", "Y", "E", "A", "R", "L", "Y", ";", "B", "Y", "M", "O", "N", "T", "H", "=", "1", ",", "2", ";", "B", "Y", "M", "O", "N", "T", "H", "D", "A", "Y", "=", "1">>,
      <<"F", "R", "E", "Q", "=", "Y", "E", "A", "R", "L", "Y", ";", "B", "Y", "M", "O", "N", "T", "H", "=", "1", ";", "B", "Y", "D", "A", "Y", "=", "M", "O">>,
      <<"F", "R", "E", "Q", "=", "Y", "E", "A", "R", "L", "Y", ";", "B", "Y", "M", "O", "N", "T", "H", "=", "3", ";", "B", "Y", "D", "A", "Y", "=", "2", "T", "U">>,
      <<"F", "R", "E", "Q", "=", "Y", "E", "A", "R", "L", "Y", ";", "B", "Y", "M", "O", "N", "T", "H", "=", "3", ";", "B", "Y", "D", "A", "Y", "=", "2", "T", "U", ",", "3", "T", "U">>,
      <<"F", "R", "E", "Q", "=", "Y", "E", "A", "R", "L", "Y", ";", "B", "Y", "M", "O", "N", "T", "H", "=", "3", ";", "B", "Y", "D", "A", "Y", "=", "T", "U", "(", "+", "2", ")">>,
      <<"F", "R", "E", "Q", "=", "Y", "E", "A", "R", "L", "Y", ";", "B", "Y", "M", "O", "N", "T", "H", "=", "6", ";", "B", "Y", "M", "O", "N", "T", "H", "D", "A", "Y", "=", "1", "5", ";", "B", "Y", "S", "E", "T", "P", "O", "S", "=", "1">>,
      <<"F", "R", "E", "Q", "=", "Y", "E", "A", "R", "L", "Y">>,
      <<"F", "R", "E", "Q", "=", "M", "O", "N", "T", "H", "L", "Y">>,
      <<"F", "R", "E", "Q", "=", "W", "E", "E", "K", "L", "Y">>,
      <<"F", "R", "E", "Q", "=", "W", "E", "E", "K", "L", "Y", ";", "B", "Y", "D", "A", "Y", "=", "2", "F", "R">>,
      <<"F", "R", "E", "Q", "=", "M", "O", "N", "T", "H", "L", "Y", ";", "B", "Y", "M", "O", "N", "T", "H", "D", "A", "Y", "=", "1", ",", "-", "1">>,
      <<"F", "R", "E", "Q", "=", "M", "O", "N", "T", "H", "L", "Y", ";", "B", "Y", "M", "O", "N", "T", "H", "D", "A", "Y", "=", "3", "1">>,
      <<"F", "R", "E", "Q", "=", "M", "O", "N", "T", "H", "L", "Y", ";", "B", "Y", "D", "A", "Y", "=", "5", "M", "O">>,
      <<"F", "R", "E", "Q", "=", "D", "A", "I", "L", "Y", ";", "W", "K", "S", "T", "=", "S", "U">>,
      <<"F", "R", "E", "Q", "=", "D", "A", "I", "L", "Y", ";", "W", "K", "S", "T", "=", "M", "O">>,
      <<"F", "R", "E", "Q", "=", "D", "A", "I", "L", "Y", ";", "B", "Y", "S", "E", "T", "P", "O", "S", "=", "1">>,
      <<"F", "R", "E", "Q", "=", "D", "A", "I", "L", "Y", ";", "B", "Y", "S", "E", "T", "P", "O", "S", "=", "0">>,
      <<"F", "R", "E", "Q", "=", "D", "A", "I", "L", "Y", ";", "C", "O", "U", "N", "T", "=", "0">>,
      <<"F", "R", "E", "Q", "=", "D", "A", "I", "L", "Y", ";", "U", "N", "T", "I", "L", "=", "2", "0", "2", "5", "1", "3", "4", "0">>,
      <<"F", "R", "E", "Q", "=", "S", "E", "C", "O", "N", "D", "L", "Y">>,
      <<"f", "r", "e", "q", "=", "h", "o", "u", "r", "l", "y", ";", "b", "y", "m", "o", "n", "t", "h", "=", "1", ";", "b", "y", "m", "o", "n", "t", "h", "d", "a", "y", "=", "1">>,
      <<"F", "R", "E", "Q", "=", "D", "A", "I", "L", "Y", " ", "F", "R", "E", "Q", "=", "W", "E", "E", "K", "L", "Y">>,
      <<"I", "N", "T", "E", "R", "V", "A", "L", "=", "2">>,
      <<"i", "n", "v", "a", "l", "i", "d">>,
      <<";", ";">>,
      <<" ">>,
      <<>> }

\* what datetime.now() can be when a rule is parsed: month, day, weekday
Todays ==
    { [month |-> 11, day |-> 4, weekday |-> 2],
      [month |-> 1, day |-> 31, weekday |-> 6] }

----------------------------------------------------------------------------
(* Forecast engine: the tables and windows the scenarios start from *)

Date0 == DateVal(2025, 6, 23)
Date3 == DateVal(2025, 6, 25)

DescChoices == {<<"r">>, <<"r", "_", "o", "v", "e", "r", "r", "i", "d", "e">>, <<"p">>}

\* accounts strings of stored entries: one account, two accounts, and a
\* string that split_accounts does not decode (an account named twice)
AccountChoices ==
    {<<"c", "-", "1", "0", "0", "0">>, <<"c", "-", "1", "2", "0", "0", " ", "s", "+", "0", ".", "5">>,
     <<"c", "+", "5", " ", "c", "+", "5">>}

\* a dtstart with a rule: once; two days running; every second day from
\* before the window until a date
ScheduleChoices ==
    { <<Date1, SentinelRule>>,
      <<Date1, <<"F", "R", "E", "Q", "=", "D", "A", "I", "L", "Y", ";", "C", "O", "U", "N", "T", "=", "2">>>>,
      <<Date0, <<"F", "R", "E", "Q", "=", "D", "A", "I", "L", "Y", ";", "I", "N", "T", "E", "R", "V", "A", "L", "=", "2", ";", "U", "N", "T", "I", "L", "=", "2", "0", "2", "5", "0", "6", "2", "5", "T", "0", "0", "0", "0", "Z">>>> }

EntryChoices ==
    { [desc |-> d, accounts |-> a, dtstart |-> s[1], rrule |-> s[2]] :
        d \in DescChoices, a \in AccountChoices, s \in ScheduleChoices }

\* the entry tables: cashflow_forecast requires len(cfs) > 0
Tables == UNION {[1..n -> EntryChoices] : n \in 1..MaxEntries}

\* forecast_dtstart and forecast_dtend
Windows ==
    { <<ToOrdinal(Date0), ToOrdinal(Date1)>>,
      <<ToOrdinal(Date3), ToOrdinal(Date3) + 2>> }

----------------------------------------------------------------------------
(* Price lookup: get_stock_price and the session's price cache *)

\* a price in hundredths, as round(..., 2) leaves it, or not-a-number,
\* which round(..., 2) returns as it is
Price(cents) == [nan |-> FALSE, cents |-> cents]

NaN == [nan |-> TRUE, cents |-> 0]

\* the exceptions that get_stock_price catches
CaughtErrors == {"TypeError", "ValueError"}

\* cache.get(symbol, 0.0)
CacheGet(cache, symbol) ==
    IF symbol \in DOMAIN cache THEN cache[symbol] ELSE Price(0)

\* cache[symbol] = price
CacheSet(cache, symbol, price) ==
    [s \in DOMAIN cache \cup {symbol} |-> IF s = symbol THEN price ELSE cache[s]]

\* get_stock_price(symbol, cache), lookup being what
\* yf.Ticker(symbol).history(period="1d")["Close"].iloc[-1] does if it is
\* evaluated: the cache afterwards, what the call returns or raises, and
\* whether the lookup was made
get_stock_price_zeroed(symbol, cache, lookup) ==
    IF symbol \in DOMAIN cache
    THEN [cache |-> cache, out |-> Result(CacheGet(cache, symbol)), asked |-> FALSE]
    ELSE IF lookup.exc = "none"
    THEN [cache |-> CacheSet(cache, symbol, lookup.ret),
          out |-> Result(CacheGet(CacheSet(cache, symbol, lookup.ret), symbol)),
          asked |-> TRUE]
    ELSE IF lookup.exc \in CaughtErrors
    THEN [cache |-> CacheSet(cache, symbol, Price(0)), out |-> Result(Price(0)),
          asked |-> TRUE]
    ELSE [cache |-> cache, out |-> lookup, asked |-> TRUE]

get_stock_price(symbol, cache, lookup) ==
    IF symbol \in DOMAIN cache
    THEN [cache |-> cache, out |-> Result(CacheGet(cache, symbol)), asked |-> FALSE]
    ELSE IF lookup.exc = "none"
    THEN [cache |-> CacheSet(cache, symbol, lookup.ret),
          out |-> Result(CacheGet(CacheSet(cache, symbol, lookup.ret), symbol)),
          asked |-> TRUE]
    ELSE IF lookup.exc \in CaughtErrors
    THEN [cache |-> cache, out |-> Result(CacheGet(cache, symbol)), asked |-> TRUE]
    ELSE [cache |-> cache, out |-> lookup, asked |-> TRUE]

----------------------------------------------------------------------------
(* Price lookup: inputs *)

\* the ticker symbols of the $ accounts
Symbols == {"AAPL", "VT", "TSLA"}

\* last closes, in hundredths
Closes == {15025, 9999}

\* what can go wrong in the lookup expression: no row in the price history
\* (iloc[-1] raises IndexError), no Close column (KeyError), the request
\* itself (curl_cffi HTTPError), or a value that round() refuses
LookupErrors == {"IndexError", "KeyError", "HTTPError", "TypeError", "ValueError"}

Lookups ==
    {Result(Price(c)) : c \in Closes} \cup {Result(NaN)}
        \cup {Raised(e) : e \in LookupErrors}

----------------------------------------------------------------------------
(* Entry list: get_cashflow_series_upload *)

S_dtstart == <<"d", "t", "s", "t", "a", "r", "t">>
S_rrule == <<"r", "r", "u", "l", "e">>
S_balance == <<"b", "a", "l", "a", "n", "c", "e">>

\* what get_cashflow_series_upload returns: a table, or None
Table(rows) == [exc |-> "none", none |-> FALSE, rows |-> rows]

NoTable == [exc |-> "none", none |-> TRUE, rows |-> <<>>]

\* the text that is handed to read_csv: the file's, or the string's if it
\* starts with the column names; any other string is taken for the
\* urlsafe-base64 form of gzip data, which a packed string is, and plain
\* text is not (b64decode or gzip.decompress raises)
ContentText(content) ==
    IF content.isfilepath THEN Result(content.text)
    ELSE IF ~content.packed /\ StartsWith(content.text, <<"d", "e", "s", "c", ",", "a", "c", "c", "o", "u", "n", "t", "s", ",", "d", "t", "s", "t", "a", "r", "t", ",", "r", "r", "u", "l", "e">>)
    THEN Result(content.text)
    ELSE IF content.packed THEN Result(content.text)
    ELSE Raised("BadGzipFile")

\* pd.read_csv of comma-separated text without quotes: the first line
\* names the columns, blank lines are skipped, no text is EmptyDataError
\* (a ValueError)
ReadLines(lines) ==
    IF lines = <<>> THEN Raised("ValueError")
    ELSE [exc |-> "none",
          columns |-> SplitOn(Head(lines), ","),
          cells |-> Computed([i \in 1..(Len(lines) - 1) |-> SplitOn(lines[i + 1], ",")])]

read_csv(text) == ReadLines(SelectSeq(SplitOn(text, "\n"), LAMBDA l : l # <<>>))

HasColumn(frame, name) == \E k \in 1..Len(frame.columns) : frame.columns[k] = name

\* frame[name] of row i; an empty cell is read as NaN, here <<>>
CellAt(frame, i, name) ==
    LET k == CHOOSE k \in 1..Len(frame.columns) : frame.columns[k] = name
    IN IF k <= Len(frame.cells[i]) THEN frame.cells[i][k] ELSE <<>>

\* date.fromisoformat(cell) for the form YYYY-MM-DD
fromisoformat(cell) ==
    IF cell = <<>> THEN Raised("TypeError")
    ELSE IF /\ Len(cell) = 10 /\ cell[5] = "-" /\ cell[8] = "-"
            /\ AllDigits(SubSeq(cell, 1, 4) \o SubSeq(cell, 6, 7) \o SubSeq(cell, 9, 10))
            /\ DigitsVal(SubSeq(cell, 1, 4)) >= 1
            /\ DigitsVal(SubSeq(cell, 6, 7)) \in 1..12
            /\ DigitsVal(SubSeq(cell, 9, 10)) >= 1
            /\ DigitsVal(SubSeq(cell, 9, 10))
                   <= DaysIn(DigitsVal(SubSeq(cell, 1, 4)), DigitsVal(SubSeq(cell, 6, 7)))
    THEN Result(DateVal(DigitsVal(SubSeq(cell, 1, 4)), DigitsVal(SubSeq(cell, 6, 7)),
                        DigitsVal(SubSeq(cell, 9, 10))))
    ELSE Raised("ValueError")

\* CashFlowSeriesSchema on one column: it is there, no cell is null, and
\* the field's check passes on every cell
ColumnValid(frame, name, Check(_)) ==
    /\ HasColumn(frame, name)
    /\ \A i \in 1..Len(frame.cells) :
          CellAt(frame, i, name) # <<>> /\ Check(CellAt(frame, i, name))

\* CashFlowSeriesSchema.validate(cfs) passes
SchemaValid(frame, today) ==
    /\ ColumnValid(frame, S_desc, LAMBDA c : Len(c) >= 1)
    /\ ColumnValid(frame, S_accounts, LAMBDA c : split_accounts(c) # <<>>)
    /\ ColumnValid(frame, S_rrule,
                   LAMBDA c : validate_rrule(Returned(c), today) = Result("None"))

\* the rows of the table that is returned
Entry(desc, accounts, dtstart, rule) ==
    [desc |-> desc, accounts |-> accounts, dtstart |-> dtstart, rrule |-> rule]

EntriesOf(frame) ==
    [i \in 1..Len(frame.cells) |->
        Entry(CellAt(frame, i, S_desc), CellAt(frame, i, S_accounts),
              fromisoformat(CellAt(frame, i, S_dtstart)).ret, CellAt(frame, i, S_rrule))]

\* the body of the try block, given what read_csv did
Validated_upload(frame, today) ==
    IF frame.exc # "none" THEN frame
    ELSE IF ~HasColumn(frame, S_dtstart) THEN Raised("KeyError")
    ELSE IF \E i \in 1..Len(frame.cells) :
                fromisoformat(CellAt(frame, i, S_dtstart)).exc # "none"
    THEN fromisoformat(CellAt(frame,
             CHOOSE i \in 1..Len(frame.cells) :
                 /\ fromisoformat(CellAt(frame, i, S_dtstart)).exc # "none"
                 /\ \A j \in 1..(i - 1) :
                       fromisoformat(CellAt(frame, j, S_dtstart)).exc = "none",
             S_dtstart))
    ELSE IF ~SchemaValid(frame, today) THEN Raised("SchemaError")
    ELSE IF Cardinality({i \in 1..Len(frame.cells) : CellAt(frame, i, S_desc) = S_balance}) > 1
    THEN Raised("AssertionError")
    ELSE Table(EntriesOf(frame))

\* the exceptions the try block turns into None
UploadCaught == {"AssertionError", "KeyError", "TypeError", "ValueError", "SchemaError"}

Excepted(out) == IF out.exc \in UploadCaught THEN NoTable ELSE out

get_cashflow_series_upload(content, today) ==
    IF ContentText(content).exc # "none" THEN ContentText(content)
    ELSE Excepted(Validated_upload(read_csv(content.text), today))

----------------------------------------------------------------------------
(* Entry list: the handlers that set cashflow_series *)

\* chr(0), which sort_cfs puts before "balance"
NUL == "NUL"

\* the characters of the model in the order of their code points
CodePoints ==
    <<NUL>> \o <<" ", "$", "+", "-", ".", "0", "1", "2", "3", "4", "5", "6", "7", "8", "9", ";", "=", "A", "B", "C", "D", "E", "F", "G", "H", "I", "J", "K", "L", "M", "N", "O", "P", "Q", "R", "S", "T", "U", "V", "W", "X", "Y", "Z", "_", "a", "b", "c", "d", "e", "f", "g", "h", "i", "j", "k", "l", "m", "n", "o", "p", "q", "r", "s", "t", "u", "v", "w", "x", "y", "z">>

Code(c) == CHOOSE i \in 1..Len(CodePoints) : CodePoints[i] = c

\* a < b for two str
RECURSIVE StrLess(_, _)
StrLess(a, b) ==
    IF b = <<>> THEN FALSE
    ELSE IF a = <<>> THEN TRUE
    ELSE IF Head(a) # Head(b) THEN Code(Head(a)) < Code(Head(b))
    ELSE StrLess(Tail(a), Tail(b))

Lower(c) ==
    CASE c = "A" -> "a" [] c = "B" -> "b" [] c = "C" -> "c" [] c = "D" -> "d"
      [] c = "E" -> "e" [] c = "F" -> "f" [] c = "G" -> "g" [] c = "H" -> "h"
      [] c = "I" -> "i" [] c = "J" -> "j" [] c = "K" -> "k" [] c = "L" -> "l"
      [] c = "M" -> "m" [] c = "N" -> "n" [] c = "O" -> "o" [] c = "P" -> "p"
      [] c = "Q" -> "q" [] c = "R" -> "r" [] c = "S" -> "s" [] c = "T" -> "t"
      [] c = "U" -> "u" [] c = "V" -> "v" [] c = "W" -> "w" [] c = "X" -> "x"
      [] c = "Y" -> "y" [] c = "Z" -> "z" [] OTHER -> c

\* s.lower()
LowerStr(s) == [i \in 1..Len(s) |-> Lower(s[i])]

\* the sort key of sort_cfs
SortKey(desc) == IF desc = S_balance THEN <<NUL>> \o desc ELSE desc

\* row put into rows that are sorted by key, behind the rows of its key
RECURSIVE Inserted(_, _)
Inserted(rows, row) ==
    IF rows = <<>> THEN <<row>>
    ELSE IF StrLess(SortKey(row.desc), SortKey(Head(rows).desc)) THEN <<row>> \o rows
    ELSE <<Head(rows)>> \o Inserted(Tail(rows), row)

\* sort_cfs: sort_values by the key (numpy sorts a table this short by
\* insertion, which keeps rows of one key in their order), reset_index
RECURSIVE sort_cfs(_)
sort_cfs(cfs) ==
    IF cfs = <<>> THEN <<>>
    ELSE Inserted(sort_cfs(SubSeq(cfs, 1, Len(cfs) - 1)), cfs[Len(cfs)])

\* cfs.drop(label): the table without that row
Dropped(cfs, row) == SubSeq(cfs, 1, row - 1) \o SubSeq(cfs, row + 1, Len(cfs))

\* the recurrence rule of a submission, or req() stops the handler
SubmittedRule(sub, today) ==
    IF sub.advanced
    THEN IF validate_rrule(Returned(sub.custom_rrule), today) = Result("None")
         THEN Returned(sub.custom_rrule) ELSE Aborted
    ELSE generate_rrulestr(sub.form)

\* the rows add_cashflow_series keeps: none named balance, in any case of
\* the letters, when the new entry is one; else all but the selected row
KeptRows(cfs, sub) ==
    IF LowerStr(sub.desc) = S_balance
    THEN SelectSeq(cfs, LAMBDA row : LowerStr(row.desc) # S_balance)
    ELSE IF sub.selected # 0 THEN Dropped(cfs, sub.selected)
    ELSE cfs

\* the validator of account row i (account_server): a name, an amount,
\* and acc_name_dedup against the names of the rows before it
AccountValid(accs, i) ==
    /\ required(accs[i].name)
    /\ accs[i].amt # None
    /\ accs[i].name \notin {accs[j].name : j \in 1..(i - 1)}

\* add_cashflow_series: what it sets cashflow_series to, if it gets there
add_cashflow_series(cfs, sub, today) ==
    IF ~required(sub.desc) \/ sub.dtstart = None \/ ~required(sub.form.freq)
    THEN Aborted
    ELSE IF SubmittedRule(sub, today) = Aborted THEN Aborted
    ELSE IF \E i \in 1..Len(sub.accs) : ~AccountValid(sub.accs, i) THEN Aborted
    ELSE [kind |-> "set",
          rows |-> sort_cfs(KeptRows(cfs, sub)
                       \o <<Entry(sub.desc, EncodeAccounts(sub.accs), sub.dtstart,
                                  SubmittedRule(sub, today).s)>>)]

\* the patch function of the entries grid: the table after a cell edit
set_patch_fn(cfs, patch, today) ==
    IF patch.column_index = 0
    THEN IF Len(patch.value) > 0
         THEN sort_cfs([cfs EXCEPT ![patch.row_index].desc = patch.value])
         ELSE cfs
    ELSE IF patch.column_index = 1
    THEN IF split_accounts(patch.value) # <<>>
         THEN [cfs EXCEPT ![patch.row_index].accounts =
                              EncodeAccounts(split_accounts(patch.value))]
         ELSE cfs
    ELSE IF patch.column_index = 2
    THEN IF fromisoformat(patch.value).exc = "none"
         THEN [cfs EXCEPT ![patch.row_index].dtstart = fromisoformat(patch.value).ret]
         ELSE cfs
    ELSE IF validate_rrule(Returned(patch.value), today) = Result("None")
         THEN [cfs EXCEPT ![patch.row_index].rrule = patch.value]
         ELSE cfs

\* cfs.drop(labels): the table without those rows
Without(cfs, rows) == SelectSeq([i \in 1..Len(cfs) |-> [at |-> i, row |-> cfs[i]]],
                                LAMBDA e : e.at \notin rows)

drop(cfs, rows) == [i \in 1..Len(Without(cfs, rows)) |-> Without(cfs, rows)[i].row]

\* delete_all_cashflow_series: cashflow_series()[0:0]
delete_all_cashflow_series(cfs) == SubSeq(cfs, 1, 0)

\* delete_cashflow_series with the rows selected: cfs.drop(...) returns
\* a new table, which is not kept; sort_cfs then sorts the table that
\* cashflow_series holds
delete_cashflow_series(cfs, rows) ==
    IF rows # {} THEN sort_cfs(cfs) ELSE cfs

\* what the patch function hands back to the grid: return orig_value
\* after a notification, return patch["value"] after cashflow_series.set,
\* or the exception validate_rrule let out
PatchReturn(patch, today) ==
    IF patch.column_index = 0
    THEN IF Len(patch.value) > 0 THEN Result("value") ELSE Result("orig_value")
    ELSE IF patch.column_index = 1
    THEN IF split_accounts(patch.value) # <<>> THEN Result("value")
         ELSE Result("orig_value")
    ELSE IF patch.column_index = 2
    THEN IF fromisoformat(patch.value).exc = "none" THEN Result("value")
         ELSE Result("orig_value")
    ELSE IF validate_rrule(Returned(patch.value), today).exc # "none"
    THEN validate_rrule(Returned(patch.value), today)
    ELSE IF validate_rrule(Returned(patch.value), today) = Result("None")
    THEN Result("value")
    ELSE Result("orig_value")

----------------------------------------------------------------------------
(* The add form: account rows, Reset Form and edit_row *)

\* the inputs of the add form that the handlers below write: the number
\* of account rows (len(accountmods)), whether "+ account" and
\* "- account" are disabled, the advanced switch, the custom rule text,
\* whether the freq selector was set from a stored rule, and the group
\* of recurrence inputs that was set from it
Widgets(n, add, del) ==
    [accountmods |-> n, add_disabled |-> add, delete_disabled |-> del,
     advanced_repeat |-> FALSE, custom_rrule |-> <<>>,
     freq_set |-> FALSE, by |-> "none"]

\* _add_account_ui_server: one more row; "- account" is enabled at the
\* second row, "+ account" disabled at the eighth
add_account_ui_server(f) ==
    [f EXCEPT !.accountmods = @ + 1,
              !.delete_disabled = IF f.accountmods + 1 = 2 THEN FALSE ELSE @,
              !.add_disabled =
                  IF f.accountmods + 1 # 2 /\ f.accountmods + 1 = 8 THEN TRUE ELSE @]

\* a handler ran to its end, or an exception left it
Done(f) == [exc |-> "none", form |-> f]

Stopped(f, e) == [exc |-> e, form |-> f]

\* delete_account_ui: accountmods.pop() and the two buttons
delete_account_ui(f) ==
    IF f.accountmods = 0 THEN Stopped(f, "IndexError")      \* pop from empty list
    ELSE Done([f EXCEPT !.accountmods = @ - 1,
                        !.delete_disabled = IF f.accountmods - 1 = 1 THEN TRUE ELSE @,
                        !.add_disabled =
                            IF f.accountmods - 1 # 1 /\ f.accountmods - 1 = 7
                            THEN FALSE ELSE @])

\* _reset_ui(create_account0): every row removed, account 0 made again if
\* asked for, "- account" disabled, the recurrence inputs at their
\* defaults; "+ account" is not written
reset_ui(f, create_account0) ==
    [(IF create_account0
      THEN add_account_ui_server([f EXCEPT !.accountmods = 0])
      ELSE [f EXCEPT !.accountmods = 0])
     EXCEPT !.delete_disabled = TRUE, !.advanced_repeat = FALSE,
            !.custom_rrule = <<>>, !.freq_set = FALSE, !.by = "none"]

\* the loop of edit_row over the items of the accounts map
RECURSIVE AddAccounts(_, _)
AddAccounts(f, k) ==
    IF k = 0 THEN f ELSE add_account_ui_server(AddAccounts(f, k - 1))

\* rrule_type == "advanced_repeat" and the like: rrule_type is a member
\* of RruleType, an enum.Enum whose values are enum.auto() numbers, and
\* a member of such an enumeration equals no str
MemberIsText(type, text) == FALSE

\* edit_row after the freq, interval and end inputs were set: the chain
\* of comparisons on rrule_type, its last branch taken for every type
\* that equals none of the texts
SetByType(f, ret) ==
    IF MemberIsText(ret.type, "byweekday_weekly")
    THEN Done([f EXCEPT !.by = "byweekday_weekly"])
    ELSE IF MemberIsText(ret.type, "bymonthday_monthly")
    THEN Done([f EXCEPT !.by = "bymonthday_monthly"])
    ELSE IF MemberIsText(ret.type, "byweekday_monthly")
    THEN Done([f EXCEPT !.by = "byweekday_monthly"])
    ELSE IF MemberIsText(ret.type, "bymonthday_yearly")
    THEN Done([f EXCEPT !.by = "bymonthday_yearly"])
    ELSE IF ret.obj.bynweekday = {}
    THEN Stopped(f, "TypeError")                  \* rrule_obj._bynweekday[0]
    ELSE IF ret.obj.bymonth = <<>>
    THEN Stopped(f, "TypeError")                  \* rrule_obj._bymonth[0]
    ELSE Done([f EXCEPT !.by = "byweekday_yearly"])

\* edit_row from parse_rrulestr on, ret being what it returned or raised
SetRule(f, s, ret) ==
    IF ret.exc # "none" THEN Stopped(f, ret.exc)
    ELSE IF MemberIsText(ret.type, "advanced_repeat")
    THEN Done([f EXCEPT !.advanced_repeat = TRUE, !.custom_rrule = s])
    ELSE IF ret.obj = None
    THEN Stopped(f, "AttributeError")             \* rrule_obj._freq on None
    ELSE IF ret.obj.freq \notin {YEARLY, MONTHLY, WEEKLY, DAILY}
    THEN Stopped(f, "KeyError")                   \* RRULE_FREQ_ENUM_TO_STR[...]
    ELSE SetByType([f EXCEPT !.freq_set = TRUE], ret)

\* edit_row with the rows selected in the grid (the entries themselves):
\* none is a reset, more than one stops at req()
edit_row(f, selection, today) ==
    IF selection = <<>> THEN Done(reset_ui(f, TRUE))
    ELSE IF Len(selection) # 1 THEN Done(f)
    ELSE IF selection[1].rrule = SentinelRule
    THEN Done(AddAccounts(reset_ui(f, FALSE),
                          Len(split_accounts(selection[1].accounts))))
    ELSE SetRule(AddAccounts(reset_ui(f, FALSE),
                             Len(split_accounts(selection[1].accounts))),
                 selection[1].rrule,
                 parse_rrulestr(selection[1].rrule, today))

\* what add_cashflow_series leaves of the form: _reset_ui() once the
\* entry is stored, the form as it is when req() stops the handler
submitted_form(f, set) == IF set = Aborted THEN f ELSE reset_ui(f, TRUE)

----------------------------------------------------------------------------
(* Ticker conversion: the price inputs and cashflow_forecast *)

\* cfs_acc_names(): the account names of the entry list, a set[str].  The
\* calc is handed to forecast_server by the application module; it is
\* taken here as the names of the accounts maps of the entries
cfs_acc_names(cfs) ==
    UNION {Keys(split_accounts(cfs[i].accounts)) : i \in 1..Len(cfs)}

\* str.isalpha(): not empty, every character a letter
isalpha(s) == s # <<>> /\ \A i \in 1..Len(s) : Lower(s[i]) # Upper(s[i])

\* the symbols set_stock_price_ui makes a price input for: acc_name[1:]
\* of every name that starts with "$", unless it is not alphabetic
TickerSymbols(names) ==
    {Tail(name) : name \in {n \in names : StartsWith(n, <<"$">>)}}

PricedSymbols(names) ==
    {Tail(name) : name \in {n \in names : StartsWith(n, <<"$">>) /\ isalpha(Tail(n))}}

\* set_stock_price_ui: price_inputs, given what each input holds
set_stock_price_ui(names, values) ==
    [symbol \in PricedSymbols(names) |-> values[symbol]]

\* cfs[column] = (cfs[column] * stock_price).round(2) on the rows of the
\* frame; the ledger is in hundredths and the price a whole number
Converted(rows, column, stock_price) ==
    [i \in 1..Len(rows) |->
        [rows[i] EXCEPT !.vals[column] = @ * stock_price]]

\* the loop of cashflow_forecast over the columns, from the k-th on
RECURSIVE ConvertFrom(_, _, _, _)
ConvertFrom(rows, columns, k, price_inputs) ==
    IF k > Len(columns) THEN Frame(rows)
    ELSE IF ~StartsWith(columns[k], <<"$">>)
    THEN ConvertFrom(rows, columns, k + 1, price_inputs)
    ELSE IF Tail(columns[k]) \notin DOMAIN price_inputs
    THEN Raised("KeyError")                       \* price_inputs[column[1:]]
    ELSE IF price_inputs[Tail(columns[k])] = None
    THEN Aborted                                  \* req(validator.is_valid())
    ELSE ConvertFrom(Converted(rows, columns[k], price_inputs[Tail(columns[k])].v),
                     columns, k + 1, price_inputs)

\* cfs["sum"] = cfs.drop(columns="activity").sum(axis=1)
RECURSIVE SumOver(_, _)
SumOver(vals, S) ==
    IF S = {} THEN 0
    ELSE vals[CHOOSE c \in S : TRUE]
             + SumOver(vals, S \ {CHOOSE c \in S : TRUE})

WithSum(out) ==
    IF out = Aborted \/ out.exc # "none" THEN out
    ELSE Frame([i \in 1..Len(out.rows) |->
                   [date |-> out.rows[i].date, vals |-> out.rows[i].vals,
                    activity |-> out.rows[i].activity,
                    sum |-> SumOver(out.rows[i].vals, DOMAIN out.rows[i].vals)]])

\* cashflow_forecast from the frame of generate_forecast on; columns is
\* the order in which the frame has its account columns
cashflow_forecast(forecast, columns, price_inputs) ==
    IF forecast.exc # "none" THEN forecast
    ELSE WithSum(ConvertFrom(forecast.rows, columns, 1, price_inputs))

----------------------------------------------------------------------------
(* Entry list: inputs *)

\* most rows the add form is let to grow the list to
MaxRows == 2

S_rent == <<"r", "e", "n", "t">>
S_Balance == <<"B", "a", "l", "a", "n", "c", "e">>
S_daily2 == <<"F", "R", "E", "Q", "=", "D", "A", "I", "L", "Y", ";", "C", "O", "U", "N", "T", "=", "2">>
S_hourly == <<"F", "R", "E", "Q", "=", "H", "O", "U", "R", "L", "Y">>
S_day == <<"2", "0", "2", "5", "-", "0", "6", "-", "2", "4">>

S_Art == <<"A", "r", "t">>

SubmitDescs == {<<>>, S_rent, S_balance, S_Balance, S_Art}

SubmitForms ==
    { DefaultForm,
      [DefaultForm EXCEPT !.freq = <<>>],
      [DefaultForm EXCEPT !.freq = S_DAILY, !.end = S_COUNT, !.count = IntVal(2)] }

\* what the account rows of the add form hold: names typed into the
\* selectize (any text, a reserved column name included), one row left
\* without a name or without an amount, a name given twice
AccountRows ==
    { <<[name |-> S_sum, amt |-> [fl |-> FALSE, neg |-> FALSE, mag |-> 500]]>>,
      <<[name |-> <<>>, amt |-> [fl |-> FALSE, neg |-> FALSE, mag |-> 500]]>>,
      <<[name |-> <<"c">>, amt |-> None]>>,
      <<[name |-> <<"c">>, amt |-> [fl |-> FALSE, neg |-> FALSE, mag |-> 500]],
        [name |-> <<"c">>, amt |-> [fl |-> FALSE, neg |-> TRUE, mag |-> 500]]>> }

\* what the add form holds when Submit is pressed, a row of the grid
\* being selected (its number) or not (0)
Submissions(cfs) ==
    {[desc |-> d, dtstart |-> Date1, accs |-> <<[name |-> <<"c">>, amt |-> [fl |-> FALSE, neg |-> TRUE, mag |-> 100000]]>>,
      advanced |-> FALSE, custom_rrule |-> <<>>, form |-> f, selected |-> k] :
        d \in SubmitDescs, f \in SubmitForms, k \in 0..Len(cfs)}
    \cup {[desc |-> d, dtstart |-> Date1, accs |-> <<[name |-> <<"c">>, amt |-> [fl |-> FALSE, neg |-> TRUE, mag |-> 100000]]>>,
           advanced |-> TRUE, custom_rrule |-> r, form |-> DefaultForm, selected |-> k] :
             d \in SubmitDescs, r \in {S_daily2, S_hourly}, k \in 0..Len(cfs)}
    \cup {[desc |-> S_rent, dtstart |-> Date1, accs |-> a,
           advanced |-> FALSE, custom_rrule |-> <<>>, form |-> DefaultForm, selected |-> 0] :
             a \in AccountRows}

\* cell edits: a row, a column and the text typed
Patches(cfs) ==
    {[row_index |-> i, column_index |-> 0, value |-> v] :
        i \in 1..Len(cfs), v \in {<<>>, S_rent, S_balance}}
    \cup {[row_index |-> i, column_index |-> 1, value |-> v] :
             i \in 1..Len(cfs), v \in {<<"c", "-", "1", "0", "0", "0">>, <<"c", "+", "5", " ", "c", "+", "5">>}}
    \cup {[row_index |-> i, column_index |-> 2, value |-> v] :
             i \in 1..Len(cfs), v \in {S_day, <<"1", "2", "/", "3", "1", "/", "2", "0", "2", "5">>}}
    \cup {[row_index |-> i, column_index |-> 3, value |-> v] :
             i \in 1..Len(cfs),
             v \in {S_daily2, S_hourly, <<"I", "N", "T", "E", "R", "V", "A", "L", "=", "2">>}}

\* lines of an entries file
GoodLines ==
    { <<"r", "e", "n", "t", ",", "c", "-", "1", "0", "0", "0", ",", "2", "0", "2", "5", "-", "0", "6", "-", "2", "4", ",", "F", "R", "E", "Q", "=", "D", "A", "I", "L", "Y", ";", "C", "O", "U", "N", "T", "=", "2">>,
      <<"b", "a", "l", "a", "n", "c", "e", ",", "c", "-", "1", "0", "0", "0", ",", "2", "0", "2", "5", "-", "0", "6", "-", "2", "4", ",", "F", "R", "E", "Q", "=", "D", "A", "I", "L", "Y", ";", "C", "O", "U", "N", "T", "=", "1">>,
      <<"B", "a", "l", "a", "n", "c", "e", ",", "c", "-", "1", "0", "0", "0", ",", "2", "0", "2", "5", "-", "0", "6", "-", "2", "4", ",", "F", "R", "E", "Q", "=", "D", "A", "I", "L", "Y", ";", "C", "O", "U", "N", "T", "=", "1">> }

BadLines ==
    { <<",", "c", "-", "1", "0", "0", "0", ",", "2", "0", "2", "5", "-", "0", "6", "-", "2", "4", ",", "F", "R", "E", "Q", "=", "D", "A", "I", "L", "Y", ";", "C", "O", "U", "N", "T", "=", "2">>,
      <<"r", "e", "n", "t", ",", "c", "+", "5", " ", "c", "+", "5", ",", "2", "0", "2", "5", "-", "0", "6", "-", "2", "4", ",", "F", "R", "E", "Q", "=", "D", "A", "I", "L", "Y", ";", "C", "O", "U", "N", "T", "=", "2">>,
      <<"r", "e", "n", "t", ",", ",", "2", "0", "2", "5", "-", "0", "6", "-", "2", "4", ",", "F", "R", "E", "Q", "=", "D", "A", "I", "L", "Y", ";", "C", "O", "U", "N", "T", "=", "2">>,
      <<"r", "e", "n", "t", ",", "c", "-", "1", "0", "0", "0", ",", "1", "2", "/", "3", "1", "/", "2", "0", "2", "5", ",", "F", "R", "E", "Q", "=", "D", "A", "I", "L", "Y", ";", "C", "O", "U", "N", "T", "=", "2">>,
      <<"r", "e", "n", "t", ",", "c", "-", "1", "0", "0", "0", ",", "2", "0", "2", "5", "-", "0", "6", "-", "2", "4", ",", "i", "n", "v", "a", "l", "i", "d">>,
      <<"r", "e", "n", "t", ",", "c", "-", "1", "0", "0", "0", ",", "2", "0", "2", "5", "-", "0", "6", "-", "2", "4", ",", "F", "R", "E", "Q", "=", "H", "O", "U", "R", "L", "Y">> }

S_header == <<"d", "e", "s", "c", ",", "a", "c", "c", "o", "u", "n", "t", "s", ",", "d", "t", "s", "t", "a", "r", "t", ",", "r", "r", "u", "l", "e">>

\* the texts of files and of stored strings: nothing, the header alone or
\* with one or two lines, a header that lacks a column, and the columns
\* in another order
Texts ==
    {<<>>, S_header \o <<"\n">>}
    \cup {S_header \o <<"\n">> \o l \o <<"\n">> : l \in GoodLines \cup BadLines}
    \cup {S_header \o <<"\n">> \o l \o <<"\n">> \o m \o <<"\n">> : l, m \in GoodLines}
    \cup {<<"d", "e", "s", "c", ",", "a", "c", "c", "o", "u", "n", "t", "s", ",", "d", "t", "s", "t", "a", "r", "t", "\n", "r", "e", "n", "t", ",", "c", "-", "1", "0", "0", "0", ",", "2", "0", "2", "5", "-", "0", "6", "-", "2", "4", "\n">>,
          <<"d", "e", "s", "c", ",", "a", "c", "c", "o", "u", "n", "t", "s", ",", "r", "r", "u", "l", "e", "\n", "r", "e", "n", "t", ",", "c", "-", "1", "0", "0", "0", ",", "F", "R", "E", "Q", "=", "D", "A", "I", "L", "Y", ";", "C", "O", "U", "N", "T", "=", "2", "\n">>,
          <<"a", "c", "c", "o", "u", "n", "t", "s", ",", "d", "e", "s", "c", ",", "d", "t", "s", "t", "a", "r", "t", ",", "r", "r", "u", "l", "e", "\n", "c", "-", "1", "0", "0", "0", ",", "r", "e", "n", "t", ",", "2", "0", "2", "5", "-", "0", "6", "-", "2", "4", ",", "F", "R", "E", "Q", "=", "D", "A", "I", "L", "Y", ";", "C", "O", "U", "N", "T", "=", "2", "\n">>}

\* an uploaded file
Files == {[isfilepath |-> TRUE, packed |-> FALSE, text |-> t] : t \in Texts}

\* what the browser's local storage holds: the text itself or its
\* compressed form
StoredStrings ==
    {[isfilepath |-> FALSE, packed |-> p, text |-> t] : p \in BOOLEAN, t \in Texts}

----------------------------------------------------------------------------
(* A component at rest *)

IdleAccounts == accPc = "idle" /\ accStr = <<>> /\ accMap = <<>> /\ accRet = <<>>

IdleRrule ==
    /\ rrPc = "idle" /\ rrForm = None /\ rrGen = None /\ rrRet = None
    /\ rrToday = [month |-> 1, day |-> 1, weekday |-> 0]

IdleForecast ==
    /\ fcPc = "idle" /\ fcCfs = <<>> /\ fcAfter = 0 /\ fcBefore = 0 /\ fcOut = None
    /\ fcPrev = None /\ fcPandas = "aligns"

IdlePrices ==
    /\ pxPc = "idle" /\ pxCache = <<>> /\ pxSym = "" /\ pxLookup = None
    /\ pxRet = None

IdleSeries ==
    /\ csPc = "idle" /\ csList = <<>> /\ csContent = None /\ csRet = None
    /\ csPatch = None /\ csCell = None /\ csRows = {}

IdleForm == fmPc = "idle" /\ fmForm = None /\ fmRow = None /\ fmExc = "none"

IdleTicker == tkPc = "idle" /\ tkCfs = <<>> /\ tkInputs = <<>> /\ tkOut = None

----------------------------------------------------------------------------
(* Accounts codec: scenarios *)

InitAccounts ==
    /\ IdleRrule
    /\ IdleForecast
    /\ IdlePrices
    /\ IdleSeries
    /\ IdleForm
    /\ IdleTicker
    /\ accRet = <<>>
    /\ \/ /\ accPc = "typed"
          /\ accStr \in TypedStrings \cup TestStrings \cup TwoTokenStrings
          /\ accMap = <<>>
       \/ /\ accPc = "form"
          /\ accStr = <<>>
          /\ accMap \in ValidMaps

\* split_accounts is called on the string at hand
SplitAccounts ==
    /\ accPc \in {"typed", "stored"}
    /\ accRet' = split_accounts(accStr)
    /\ accPc' = IF accPc = "typed" THEN "decoded" ELSE "reread"
    /\ UNCHANGED <<accStr, accMap, rrVars, fcVars, pxVars, csVars, fmVars, tkVars>>

\* view_table's patch of the accounts cell: the decoded value is stored
\* re-encoded
PatchEncode ==
    /\ accPc = "decoded"
    /\ accRet # <<>>
    /\ accMap' = accRet
    /\ accStr' = EncodeAccounts(accRet)
    /\ accPc' = "stored"
    /\ UNCHANGED <<accRet, rrVars, fcVars, pxVars, csVars, fmVars, tkVars>>

\* add_entry's submit: the form's accounts are stored encoded (the amounts
\* of the model are already what round(amt, 2) gives)
SubmitEncode ==
    /\ accPc = "form"
    /\ accStr' = EncodeAccounts(accMap)
    /\ accPc' = "stored"
    /\ UNCHANGED <<accMap, accRet, rrVars, fcVars, pxVars, csVars, fmVars, tkVars>>

NextAccounts == SplitAccounts \/ PatchEncode \/ SubmitEncode

SpecAccounts == InitAccounts /\ [][NextAccounts]_vars

----------------------------------------------------------------------------
(* Recurrence codec: scenarios *)

InitRrule ==
    /\ IdleAccounts
    /\ IdleForecast
    /\ IdlePrices
    /\ IdleSeries
    /\ IdleForm
    /\ IdleTicker
    /\ rrToday \in Todays
    /\ rrRet = None
    /\ \/ /\ rrPc = "form"
          /\ rrForm \in FormSelections
          /\ rrGen = None
       \/ /\ rrPc = "stored"
          /\ rrForm = None
          /\ rrGen \in {Returned(r) : r \in RuleChoices}
       \/ /\ rrPc = "typed"
          /\ rrForm = None
          /\ rrGen \in {NoRule} \cup {Returned(r) : r \in RuleChoices}

\* add_cashflow_series builds the rule from the form
GenerateRrulestr ==
    /\ rrPc = "form"
    /\ rrGen' = generate_rrulestr(rrForm)
    /\ rrPc' = IF rrGen'.kind = "req" THEN "aborted" ELSE "stored"
    /\ UNCHANGED <<rrForm, rrRet, rrToday, accVars, fcVars, pxVars, csVars, fmVars, tkVars>>

\* edit_row reads a stored rule back
ParseRrulestr ==
    /\ rrPc = "stored"
    /\ rrRet' = parse_rrulestr(rrGen.s, rrToday)
    /\ rrPc' = "parsed"
    /\ UNCHANGED <<rrForm, rrGen, rrToday, accVars, fcVars, pxVars, csVars, fmVars, tkVars>>

\* the custom rule text (or the rule cell, or None) goes through
\* validate_rrule
ValidateRrule ==
    /\ rrPc = "typed"
    /\ rrRet' = validate_rrule(rrGen, rrToday)
    /\ rrPc' = "validated"
    /\ UNCHANGED <<rrForm, rrGen, rrToday, accVars, fcVars, pxVars, csVars, fmVars, tkVars>>

NextRrule == GenerateRrulestr \/ ParseRrulestr \/ ValidateRrule

SpecRrule == InitRrule /\ [][NextRrule]_vars

----------------------------------------------------------------------------
(* Forecast engine: scenarios *)

InitForecast ==
    /\ IdleAccounts
    /\ IdleRrule
    /\ IdlePrices
    /\ IdleSeries
    /\ IdleForm
    /\ IdleTicker
    /\ fcPc = "ready"
    /\ fcCfs \in Tables
    /\ \E w \in Windows : fcAfter = w[1] /\ fcBefore = w[2]
    /\ fcOut = None
    /\ fcPrev = None
    /\ fcPandas \in {"aligns", "refuses"}

\* generate_forecast is called on the table and the window, a first time
\* and then once more on the same table object
GenerateForecast ==
    /\ fcPc \in {"ready", "done"}
    /\ fcOut' = generate_forecast(fcCfs, fcAfter, fcBefore, fcPandas)
    /\ fcPrev' = fcOut
    /\ fcCfs' = DateColumn(fcCfs, fcAfter, fcBefore)
    /\ fcPc' = IF fcPc = "ready" THEN "done" ELSE "again"
    /\ UNCHANGED <<fcAfter, fcBefore, fcPandas, accVars, rrVars, pxVars, csVars, fmVars, tkVars>>

NextForecast == GenerateForecast

SpecForecast == InitForecast /\ [][NextForecast]_vars

----------------------------------------------------------------------------
(* Price lookup: scenarios *)

\* a session opens with an empty cache (forecast.py: stock_price_cache = {})
InitPrices ==
    /\ IdleAccounts
    /\ IdleRrule
    /\ IdleForecast
    /\ IdleSeries
    /\ IdleForm
    /\ IdleTicker
    /\ pxPc = "open"
    /\ pxCache = <<>>
    /\ pxSym = ""
    /\ pxLookup = None
    /\ pxRet = None

\* stock_price_ui or reset_stock_price calls get_stock_price
GetStockPrice ==
    /\ pxPc \in {"open", "returned"}
    /\ \E symbol \in Symbols : \E lookup \in Lookups :
          /\ pxSym' = symbol
          /\ pxCache' = get_stock_price(symbol, pxCache, lookup).cache
          /\ pxRet' = get_stock_price(symbol, pxCache, lookup).out
          /\ pxLookup' = IF get_stock_price(symbol, pxCache, lookup).asked
                         THEN lookup ELSE None
    /\ pxPc' = "returned"
    /\ UNCHANGED <<accVars, rrVars, fcVars, csVars, fmVars, tkVars>>

NextPrices == GetStockPrice

SpecPrices == InitPrices /\ [][NextPrices]_vars

----------------------------------------------------------------------------
(* Entry list: scenarios *)

\* the session is running: the handler named ran last
Running == {"loaded", "uploaded", "added", "patched", "cleared", "deleted"}

\* a session starts with an empty entry list
InitSeries ==
    /\ IdleAccounts
    /\ IdleRrule
    /\ IdleForecast
    /\ IdlePrices
    /\ IdleForm
    /\ IdleTicker
    /\ csPc = "start"
    /\ csList = <<>>
    /\ csContent = None
    /\ csRet = None
    /\ csPatch = None
    /\ csCell = None
    /\ csRows = {}

\* load_localstorage_cfs, fired once, when the stored string arrives: an
\* empty string is left alone, a table is taken as it is, and an
\* exception out of the effect ends the session
Recovered(stored, cfs) ==
    /\ csContent' = stored
    /\ csRet' = cfs
    /\ csPc' = IF cfs.exc # "none" THEN "closed" ELSE "loaded"
    /\ csList' = IF cfs.exc = "none" /\ ~cfs.none THEN cfs.rows ELSE csList

LoadLocalstorageCfs ==
    /\ csPc = "start"
    /\ \E stored \in StoredStrings :
          IF ~stored.packed /\ stored.text = <<>>
          THEN /\ csPc' = "loaded"
               /\ UNCHANGED <<csList, csContent, csRet, fmVars, tkVars>>
          ELSE Recovered(stored, get_cashflow_series_upload(stored, rrToday))
    /\ UNCHANGED <<csPatch, csCell, csRows, accVars, rrVars, fcVars, pxVars, fmVars, tkVars>>

\* upload_cashflow_series: a table is sorted and set, None shows a modal
Replaced_by(file, cfs) ==
    /\ csContent' = file
    /\ csRet' = cfs
    /\ csList' = IF ~cfs.none THEN sort_cfs(cfs.rows) ELSE csList

UploadCashflowSeries ==
    /\ csPc \in Running
    /\ \E file \in Files :
          Replaced_by(file, get_cashflow_series_upload(file, rrToday))
    /\ csPc' = "uploaded"
    /\ csPatch' = None
    /\ csCell' = None
    /\ csRows' = {}
    /\ UNCHANGED <<accVars, rrVars, fcVars, pxVars, fmVars, tkVars>>

Submitted(set) ==
    IF set = Aborted THEN csList' = csList
    ELSE Len(set.rows) <= MaxRows /\ csList' = set.rows

\* add_cashflow_series, on Submit
AddCashflowSeries ==
    /\ csPc \in Running
    /\ \E sub \in Submissions(csList) :
          Submitted(add_cashflow_series(csList, sub, rrToday))
    /\ csContent' = None
    /\ csRet' = None
    /\ csPatch' = None
    /\ csCell' = None
    /\ csRows' = {}
    /\ csPc' = "added"
    /\ UNCHANGED <<accVars, rrVars, fcVars, pxVars, fmVars, tkVars>>

\* the patch function, on a cell edit
PatchCell ==
    /\ csPc \in Running
    /\ \E patch \in Patches(csList) :
          /\ csList' = set_patch_fn(csList, patch, rrToday)
          /\ csPatch' = patch
          /\ csCell' = PatchReturn(patch, rrToday)
          /\ csRows' = {}
    /\ csContent' = None
    /\ csRet' = None
    /\ csPc' = "patched"
    /\ UNCHANGED <<accVars, rrVars, fcVars, pxVars, fmVars, tkVars>>

\* delete_all_cashflow_series: cashflow_series()[0:0]
DeleteAllCashflowSeries ==
    /\ csPc \in Running
    /\ csList' = delete_all_cashflow_series(csList)
    /\ csContent' = None
    /\ csRet' = None
    /\ csPatch' = None
    /\ csCell' = None
    /\ csRows' = {}
    /\ csPc' = "cleared"
    /\ UNCHANGED <<accVars, rrVars, fcVars, pxVars, fmVars, tkVars>>

\* Delete Selected, with the rows the grid has selected (none included)
DeleteCashflowSeries ==
    /\ csPc \in Running
    /\ \E rows \in SUBSET (1..Len(csList)) :
          /\ csList' = delete_cashflow_series(csList, rows)
          /\ csRows' = rows
    /\ csContent' = None
    /\ csRet' = None
    /\ csPatch' = None
    /\ csCell' = None
    /\ csPc' = "deleted"
    /\ UNCHANGED <<accVars, rrVars, fcVars, pxVars, fmVars, tkVars>>

NextSeries ==
    \/ LoadLocalstorageCfs
    \/ UploadCashflowSeries
    \/ AddCashflowSeries
    \/ PatchCell
    \/ DeleteAllCashflowSeries
    \/ DeleteCashflowSeries

SpecSeries == InitSeries /\ [][NextSeries]_vars

----------------------------------------------------------------------------
(* The add form: scenarios *)

\* rules of stored entries: no repeat, a daily rule, two days of the
\* month (Advanced), the first Monday of January, an hourly rule
EditRules ==
    { SentinelRule, S_daily2,
      <<"F", "R", "E", "Q", "=", "M", "O", "N", "T", "H", "L", "Y", ";", "B", "Y", "M", "O", "N", "T", "H", "D", "A", "Y", "=", "1", ",", "2">>,
      <<"F", "R", "E", "Q", "=", "Y", "E", "A", "R", "L", "Y", ";", "B", "Y", "M", "O", "N", "T", "H", "=", "1", ";", "B", "Y", "D", "A", "Y", "=", "1", "M", "O">>,
      <<"f", "r", "e", "q", "=", "h", "o", "u", "r", "l", "y", ";", "b", "y", "m", "o", "n", "t", "h", "=", "1", ";", "b", "y", "m", "o", "n", "t", "h", "d", "a", "y", "=", "1">> }

\* the stored entries a row of the grid can be
FormEntries ==
    {Entry(S_rent, a, Date1, r) : a \in AccountChoices, r \in EditRules}

\* what the grid has selected when edit_row runs
Selections ==
    {<<>>} \cup {<<e>> : e \in FormEntries}
    \cup {<<e, e>> : e \in {Entry(S_rent, S_checking5, Date1, SentinelRule)}}

FormRunning == {"start", "added", "removed", "reset", "submitted", "edited"}

\* the session opens: add_account_ui has run once (ignore_none=False)
\* on a form whose "- account" button is built disabled
InitForm ==
    /\ IdleAccounts
    /\ IdleRrule
    /\ IdleForecast
    /\ IdlePrices
    /\ IdleSeries
    /\ IdleTicker
    /\ fmPc = "start"
    /\ fmForm = add_account_ui_server(Widgets(0, FALSE, TRUE))
    /\ fmRow = None
    /\ fmExc = "none"

\* "+ account", clickable while enabled
AddAccountUi ==
    /\ fmPc \in FormRunning /\ fmExc = "none"
    /\ ~fmForm.add_disabled
    /\ fmForm' = add_account_ui_server(fmForm)
    /\ fmPc' = "added"
    /\ fmRow' = None
    /\ UNCHANGED <<fmExc, accVars, rrVars, fcVars, pxVars, csVars, tkVars>>

\* "- account", clickable while enabled
DeleteAccountUi ==
    /\ fmPc \in FormRunning /\ fmExc = "none"
    /\ ~fmForm.delete_disabled
    /\ fmForm' = delete_account_ui(fmForm).form
    /\ fmExc' = delete_account_ui(fmForm).exc
    /\ fmPc' = "removed"
    /\ fmRow' = None
    /\ UNCHANGED <<accVars, rrVars, fcVars, pxVars, csVars, tkVars>>

\* Reset Form
ResetUi ==
    /\ fmPc \in FormRunning /\ fmExc = "none"
    /\ fmForm' = reset_ui(fmForm, TRUE)
    /\ fmPc' = "reset"
    /\ fmRow' = None
    /\ UNCHANGED <<fmExc, accVars, rrVars, fcVars, pxVars, csVars, tkVars>>

\* Submit, seen from the form; what it does to the entry list is
\* AddCashflowSeries
SubmitForm ==
    /\ fmPc \in FormRunning /\ fmExc = "none"
    /\ \E sub \in Submissions(<<>>) :
          fmForm' = submitted_form(fmForm, add_cashflow_series(<<>>, sub, rrToday))
    /\ fmPc' = "submitted"
    /\ fmRow' = None
    /\ UNCHANGED <<fmExc, accVars, rrVars, fcVars, pxVars, csVars, tkVars>>

\* the selection of the grid changes while the sidebar is open
EditRow ==
    /\ fmPc \in FormRunning /\ fmExc = "none"
    /\ \E selection \in Selections :
          /\ fmForm' = edit_row(fmForm, selection, rrToday).form
          /\ fmExc' = edit_row(fmForm, selection, rrToday).exc
          /\ fmRow' = IF Len(selection) = 1 THEN selection[1] ELSE None
    /\ fmPc' = "edited"
    /\ UNCHANGED <<accVars, rrVars, fcVars, pxVars, csVars, tkVars>>

NextForm == AddAccountUi \/ DeleteAccountUi \/ ResetUi \/ SubmitForm \/ EditRow

SpecForm == InitForm /\ [][NextForm]_vars

----------------------------------------------------------------------------
(* Ticker conversion: scenarios *)

\* accounts of the entries: cash, a ticker, a ticker with a dot in its
\* symbol, a ticker next to cash
TickerAccounts ==
    { <<"c", "-", "1", "0", "0", "0">>, <<"$", "V", "T", "+", "2">>, <<"$", "B", "R", "K", ".", "B", "+", "1">>, <<"$", "V", "T", "+", "3", " ", "c", "-", "5">> }

TickerEntries ==
    { Entry(<<"r">>, a, Date1, r) : a \in TickerAccounts, r \in {SentinelRule, S_daily2} }

TickerTables == UNION {[1..n -> TickerEntries] : n \in 1..MaxEntries}

\* what a price input can hold: nothing, or a price
PriceValues == {None, IntVal(2), IntVal(150)}

\* the forecast window of the session
TickerAfter == ToOrdinal(Date0)

TickerBefore == ToOrdinal(Date3) + 2

\* the orders in which a frame can have the columns S
ColumnOrders(S) ==
    {s \in [1..Cardinality(S) -> S] : \A i, j \in 1..Cardinality(S) : s[i] = s[j] => i = j}

\* a session with an entry list; stock_price_inputs starts as dict()
InitTicker ==
    /\ IdleAccounts
    /\ IdleRrule
    /\ IdleForecast
    /\ IdlePrices
    /\ IdleSeries
    /\ IdleForm
    /\ tkPc = "start"
    /\ tkCfs \in TickerTables
    /\ tkInputs = <<>>
    /\ tkOut = None

\* set_stock_price_ui renders: one price input per symbol, holding what
\* its numeric field holds
SetStockPriceUi ==
    /\ tkPc = "start"
    /\ \E values \in [TickerSymbols(cfs_acc_names(tkCfs)) -> PriceValues] :
          tkInputs' = set_stock_price_ui(cfs_acc_names(tkCfs), values)
    /\ tkPc' = "priced"
    /\ UNCHANGED <<tkCfs, tkOut, accVars, rrVars, fcVars, pxVars, csVars, fmVars>>

\* cashflow_forecast is computed from the price inputs that
\* set_stock_price_ui has set (setting them invalidates it)
CashflowForecast ==
    /\ tkPc = "priced"
    /\ \E columns \in ColumnOrders(
              Columns(Deltas(Resolved(Exploded(tkCfs, TickerAfter, TickerBefore))))) :
          tkOut' = cashflow_forecast(
                       generate_forecast(tkCfs, TickerAfter, TickerBefore, "aligns"),
                       columns, tkInputs)
    /\ tkPc' = "forecast"
    /\ UNCHANGED <<tkCfs, tkInputs, accVars, rrVars, fcVars, pxVars, csVars, fmVars>>

NextTicker == SetStockPriceUi \/ CashflowForecast

SpecTicker == InitTicker /\ [][NextTicker]_vars

----------------------------------------------------------------------------
(* Accounts codec: properties *)

SignChars == {"+", "-"}

\* a map whose names hold no sign character and no whitespace
CleanNames(m) ==
    \A i \in 1..Len(m) : \A k \in 1..Len(m[i].name) :
        m[i].name[k] \notin SignChars \cup Whitespace

\* the tokens of s, read off the string: maximal runs without whitespace
TokenSpans(s) ==
    {sp \in (1..Len(s)) \X (1..Len(s)) :
        /\ sp[1] <= sp[2]
        /\ \A k \in sp[1]..sp[2] : s[k] \notin Whitespace
        /\ sp[1] = 1 \/ s[sp[1] - 1] \in Whitespace
        /\ sp[2] = Len(s) \/ s[sp[2] + 1] \in Whitespace}

TokenAt(s, sp) == SubSeq(s, sp[1], sp[2])

HasSign(t) == \E k \in 1..Len(t) : t[k] \in SignChars

\* where a token with a sign is split: its first "+", or else its first "-"
SplitPoint(t) ==
    LET c == IF Contains(t, "+") THEN "+" ELSE "-"
    IN CHOOSE k \in 1..Len(t) : t[k] = c /\ \A j \in 1..(k - 1) : t[j] # c

NameOf(t) == SubSeq(t, 1, SplitPoint(t) - 1)

\* what follows the split point
AfterSign(t) == SubSeq(t, SplitPoint(t) + 1, Len(t))

\* digits, optionally with one "." among them
Unsigned(a) ==
    /\ \E k \in 1..Len(a) : a[k] \in Digits
    /\ \A k \in 1..Len(a) : a[k] \in Digits \cup {"."}
    /\ Cardinality({k \in 1..Len(a) : a[k] = "."}) <= 1

\* an amount Python reads as a number: unsigned, or with one more sign when
\* the token was split at "+"
Numeric(t) ==
    LET a == AfterSign(t)
    IN \/ Unsigned(a)
       \/ /\ t[SplitPoint(t)] = "+"
          /\ a # <<>> /\ a[1] \in SignChars /\ Unsigned(Tail(a))

\* digits, optionally followed by "." and digits
StrictAmount(a) ==
    \E parts \in {SplitOn(a, ".")} :
        /\ Len(parts) \in {1, 2}
        /\ \A i \in 1..Len(parts) : parts[i] # <<>> /\ AllDigits(parts[i])

\* the string is empty, or a token has no sign or a non-numeric amount, or a
\* name repeats or is reserved
BadAccounts(s) ==
    LET spans == TokenSpans(s)
    IN \/ spans = {}
       \/ \E sp \in spans : ~HasSign(TokenAt(s, sp))
       \/ \E sp \in spans : HasSign(TokenAt(s, sp)) /\ ~Numeric(TokenAt(s, sp))
       \/ \E sp \in spans : HasSign(TokenAt(s, sp))
                            /\ NameOf(TokenAt(s, sp)) \in ReservedNames
       \/ \E sp1 \in spans : \E sp2 \in spans :
              /\ sp1 # sp2
              /\ HasSign(TokenAt(s, sp1)) /\ HasSign(TokenAt(s, sp2))
              /\ NameOf(TokenAt(s, sp1)) = NameOf(TokenAt(s, sp2))

Decoded == accPc \in {"decoded", "reread"}

\* C1 as stated: decoding the encoding of any valid map (non-empty, unique
\* non-reserved names, int or 2-decimal amounts) gives the map back.
C1_RoundTripAnyNames == accPc = "reread" => DictEq(accRet, accMap)

\* C1 amended: decoding the encoding of a valid map whose names hold no "+",
\* no "-" and no whitespace gives the map back, with the same items in the
\* same order.
C1_RoundTrip ==
    (accPc = "reread" /\ CleanNames(accMap))
        => DictEq(accRet, accMap) /\ Len(accRet) = Len(accMap)
           /\ \A i \in 1..Len(accMap) : accRet[i].name = accMap[i].name

\* a two-account map from the form, one amount a negative float, re-read
C1_Witness ==
    /\ accPc = "reread"
    /\ CleanNames(accMap)
    /\ Len(accMap) = 2
    /\ \E i \in 1..2 : accMap[i].amt.fl /\ accMap[i].amt.neg
    /\ DictEq(accRet, accMap)

\* C2: split_accounts returns the empty map when the string is empty, a
\* token has no sign or a non-numeric amount, a name repeats or is reserved;
\* a non-empty result has one item per token, none left out.
C2_AllOrNothing ==
    Decoded =>
        /\ BadAccounts(accStr) => accRet = <<>>
        /\ accRet # <<>> => Len(accRet) = Cardinality(TokenSpans(accStr))

\* a good token followed by a token repeating its name: nothing is returned
C2_Witness ==
    /\ accPc = "decoded"
    /\ accStr = S_checking5 \o <<" ">> \o S_checking5
    /\ accRet = <<>>

\* C3 as stated: a non-empty result only when every token is a non-empty
\* name, one sign at the split point, and an unsigned amount of digits
\* optionally followed by "." and digits.
C3_Grammar ==
    (Decoded /\ accRet # <<>>) =>
        \A sp \in TokenSpans(accStr) :
            LET t == TokenAt(accStr, sp)
            IN /\ HasSign(t)
               /\ NameOf(t) # <<>>
               /\ StrictAmount(AfterSign(t))

----------------------------------------------------------------------------
(* Recurrence codec: properties *)

\* a rule made by generate_rrulestr from the form is at hand
Generated == rrForm.t = "form" /\ rrPc \in {"stored", "parsed"}

\* C7: generate_rrulestr with freq NEVER returns exactly "FREQ=DAILY;COUNT=1",
\* whatever interval, end, until, count and the BY* inputs are (it never stops
\* on them either)
C7_NeverSentinel ==
    (rrForm.t = "form" /\ rrPc # "form" /\ rrForm.freq = S_NEVER)
        => rrGen = Returned(<<"F", "R", "E", "Q", "=", "D", "A", "I", "L", "Y", ";", "C", "O", "U", "N", "T", "=", "1">>)

\* C7 happens: "no repeat" chosen with a non-integer interval, a count that is
\* missing and other BY* inputs than the defaults
C7_Witness ==
    /\ rrPc = "stored" /\ rrForm.t = "form" /\ rrForm.freq = S_NEVER
    /\ rrForm.interval = FloatVal
    /\ rrForm.end = S_COUNT /\ rrForm.count = None
    /\ rrForm.onday_yearly = S_weekday
    /\ rrGen = Returned(<<"F", "R", "E", "Q", "=", "D", "A", "I", "L", "Y", ";", "C", "O", "U", "N", "T", "=", "1">>)

\* the BY* fields the chosen branch writes, in order
ByFields(f) ==
    IF f.freq = S_WEEKLY THEN <<<<"B", "Y", "D", "A", "Y", "=">> \o Join(f.byweekday_weekly, <<",">>)>>
    ELSE IF f.freq = S_MONTHLY /\ f.onday_monthly = S_weekday
         THEN <<<<"B", "Y", "D", "A", "Y", "=">> \o f.byweekday_ord_monthly \o f.byweekday_monthly>>
    ELSE IF f.freq = S_MONTHLY THEN <<<<"B", "Y", "M", "O", "N", "T", "H", "D", "A", "Y", "=">> \o f.bymonthday_monthly>>
    ELSE IF f.freq = S_YEARLY /\ f.onday_yearly = S_weekday
         THEN <<<<"B", "Y", "D", "A", "Y", "=">> \o f.byweekday_ord_yearly \o f.byweekday_yearly,
                <<"B", "Y", "M", "O", "N", "T", "H", "=">> \o f.bymonth_byweekday_yearly>>
    ELSE IF f.freq = S_YEARLY
         THEN <<<<"B", "Y", "M", "O", "N", "T", "H", "=">> \o f.bymonth_yearly, <<"B", "Y", "M", "O", "N", "T", "H", "D", "A", "Y", "=">> \o f.bymonthday_yearly>>
    ELSE <<>>

\* the last field: UNTIL=<YYYYMMDD>T0000Z, COUNT=<n>, or none
EndField(f) ==
    IF f.end = S_UNTIL
    THEN <<<<"U", "N", "T", "I", "L", "=">> \o Pad4(f.until.y) \o Pad2(f.until.m) \o Pad2(f.until.d) \o <<"T", "0", "0", "0", "0", "Z">>>>
    ELSE IF f.end = S_COUNT THEN <<<<"C", "O", "U", "N", "T", "=">> \o PyStr(f.count.v)>>
    ELSE <<>>

\* C8: for a frequency other than NEVER the fields of the returned string,
\* separated by ";", are FREQ=<freq>, then INTERVAL=<n> exactly when n > 1,
\* then the BY* fields of the chosen branch, then UNTIL=<YYYYMMDD>T0000Z or
\* COUNT=<n> or nothing according to end; WEEKLY, 2, FR gives
\* FREQ=WEEKLY;INTERVAL=2;BYDAY=FR
C8_Layout ==
    (Generated /\ rrForm.freq # S_NEVER) =>
        /\ SplitOn(rrGen.s, ";") =
               <<<<"F", "R", "E", "Q", "=">> \o rrForm.freq>>
               \o (IF rrForm.interval.v > 1
                   THEN <<<<"I", "N", "T", "E", "R", "V", "A", "L", "=">> \o PyStr(rrForm.interval.v)>> ELSE <<>>)
               \o ByFields(rrForm) \o EndField(rrForm)
        /\ (/\ rrForm.freq = S_WEEKLY /\ rrForm.interval = IntVal(2)
            /\ rrForm.byweekday_weekly = <<S_FR>> /\ rrForm.end = S_NEVER)
               => rrGen.s = <<"F", "R", "E", "Q", "=", "W", "E", "E", "K", "L", "Y", ";", "I", "N", "T", "E", "R", "V", "A", "L", "=", "2", ";", "B", "Y", "D", "A", "Y", "=", "F", "R">>

\* C8 happens: MONTHLY, every 3, on day 20, until 2025-06-24
C8_Witness ==
    /\ rrPc = "stored" /\ rrForm.t = "form"
    /\ rrForm.freq = S_MONTHLY /\ rrForm.interval = IntVal(3)
    /\ rrForm.onday_monthly = S_monthday /\ rrForm.bymonthday_monthly = <<"2", "0">>
    /\ rrForm.end = S_UNTIL /\ rrForm.until = DateVal(2025, 6, 24)
    /\ rrGen = Returned(<<"F", "R", "E", "Q", "=", "M", "O", "N", "T", "H", "L", "Y", ";", "I", "N", "T", "E", "R", "V", "A", "L", "=", "3", ";", "B", "Y", "M", "O", "N", "T", "H", "D", "A", "Y", "=", "2", "0", ";", "U", "N", "T", "I", "L", "=", "2", "0", "2", "5", "0", "6", "2", "4", "T", "0", "0", "0", "0", "Z">>)

\* the classification that has the shape of the selection
ShapeOf(f) ==
    IF f.freq = S_NEVER THEN "NEVER"
    ELSE IF f.freq = S_DAILY THEN "DAILY"
    ELSE IF f.freq = S_WEEKLY THEN "BYWEEKDAY_WEEKLY"
    ELSE IF f.freq = S_MONTHLY
         THEN (IF f.onday_monthly = S_weekday THEN "BYWEEKDAY_MONTHLY"
               ELSE "BYMONTHDAY_MONTHLY")
    ELSE IF f.onday_yearly = S_weekday THEN "BYWEEKDAY_YEARLY"
    ELSE "BYMONTHDAY_YEARLY"

\* the rule object carries the interval and the end condition of the selection
SameRepeat(f, o) ==
    /\ o.interval = f.interval.v
    /\ o.count = (IF f.end = S_COUNT THEN f.count ELSE None)
    /\ o.until = (IF f.end = S_UNTIL THEN f.until ELSE None)

OrdWeekday(ord, wd) == {<<IndexIn(WeekdayNames, wd), PyIntVal(ord).v>>}

\* the rule object carries the BY* values of the selection
SameBy(f, o) ==
    IF f.freq = S_WEEKLY
    THEN Elems(o.byweekday) = {IndexIn(WeekdayNames, w) : w \in Elems(f.byweekday_weekly)}
    ELSE IF f.freq = S_MONTHLY /\ f.onday_monthly = S_weekday
    THEN o.bynweekday = OrdWeekday(f.byweekday_ord_monthly, f.byweekday_monthly)
    ELSE IF f.freq = S_MONTHLY
    THEN o.bymonthday \o o.bynmonthday = <<PyIntVal(f.bymonthday_monthly).v>>
    ELSE IF f.freq = S_YEARLY /\ f.onday_yearly = S_weekday
    THEN /\ o.bynweekday = OrdWeekday(f.byweekday_ord_yearly, f.byweekday_yearly)
         /\ o.bymonth = <<PyIntVal(f.bymonth_byweekday_yearly).v>>
    ELSE IF f.freq = S_YEARLY
    THEN /\ o.bymonth = <<PyIntVal(f.bymonth_yearly).v>>
         /\ o.bymonthday = <<PyIntVal(f.bymonthday_yearly).v>>
    ELSE TRUE

\* C9: for every selection of the form (interval >= 1), the rule made by
\* generate_rrulestr is classified by parse_rrulestr as the shape that was
\* selected ("no repeat" being the sentinel), and the rule object carries the
\* selected interval, end condition and BY* values
C9_RoundTrip ==
    (rrPc = "parsed" /\ rrForm.t = "form" /\ (rrForm.freq # S_NEVER => rrForm.interval.v >= 1))
        => /\ ClassifyStored(rrGen.s, rrRet) = ShapeOf(rrForm)
           /\ rrForm.freq # S_NEVER =>
                  SameRepeat(rrForm, rrRet.obj) /\ SameBy(rrForm, rrRet.obj)

\* the value of the field called name in a rule string, <<>> when it has none
FieldOf(s, name) ==
    LET pairs == SplitOn(s, ";")
        at == {i \in 1..Len(pairs) : StartsWith(pairs[i], name \o <<"=">>)}
    IN IF at = {} THEN <<>>
       ELSE SubSeq(pairs[CHOOSE i \in at : TRUE], Len(name) + 2,
                   Len(pairs[CHOOSE i \in at : TRUE]))

\* a single value: something, and no comma
Single(v) == v # <<>> /\ ~Contains(v, ",")

\* a YEARLY rule whose only BY* fields are BYMONTH and the one named
YearlyWith(s, by) ==
    /\ FieldOf(s, S_FREQ) = S_YEARLY
    /\ Single(FieldOf(s, <<"B", "Y", "M", "O", "N", "T", "H">>))
    /\ Single(FieldOf(s, by))
    /\ \A i \in 1..Len(SplitOn(s, ";")) :
           \E name \in {S_FREQ, <<"I", "N", "T", "E", "R", "V", "A", "L">>, S_COUNT, S_UNTIL, <<"B", "Y", "M", "O", "N", "T", "H">>, by} :
               StartsWith(SplitOn(s, ";")[i], name \o <<"=">>)

\* C10: a YEARLY rule with exactly one BYMONTH value, exactly one ordinal
\* weekday in BYDAY and no BYMONTHDAY is classified BYWEEKDAY_YEARLY, and one
\* with exactly one BYMONTH and exactly one (positive) BYMONTHDAY value is
\* classified BYMONTHDAY_YEARLY
C10_YearlyTypes ==
    (rrPc = "parsed" /\ rrRet.exc = "none") =>
        /\ (/\ YearlyWith(rrGen.s, S_BYDAY)
            /\ FieldOf(rrGen.s, S_BYDAY)[1] \in Digits \cup {"+", "-"})
               => rrRet.type = "BYWEEKDAY_YEARLY"
        /\ (/\ YearlyWith(rrGen.s, <<"B", "Y", "M", "O", "N", "T", "H", "D", "A", "Y">>)
            /\ FieldOf(rrGen.s, <<"B", "Y", "M", "O", "N", "T", "H", "D", "A", "Y">>)[1] \in Digits \ {"0"})
               => rrRet.type = "BYMONTHDAY_YEARLY"

\* the values a BY* field of a rule string lists
ValuesOf(s, name) ==
    IF FieldOf(s, name) = <<>> THEN <<>> ELSE SplitOn(FieldOf(s, name), ",")

\* the month days a rule object carries, positive and negative
MonthDaysOf(o) == o.bymonthday \o o.bynmonthday

\* C11: a MONTHLY rule is classified as the month-day type only if it carries
\* exactly one BYMONTHDAY value in total, that value in 1..28 or in {-1, -2},
\* and no ordinal weekday; a MONTHLY rule with two BYMONTHDAY values (such as
\* 1 and -1) is classified Advanced
C11_MonthlyByMonthday ==
    (/\ rrPc = "parsed" /\ rrRet.exc = "none"
     /\ FieldOf(rrGen.s, S_FREQ) = S_MONTHLY) =>
        /\ rrRet.type = "BYMONTHDAY_MONTHLY" =>
               /\ Len(MonthDaysOf(rrRet.obj)) = 1
               /\ MonthDaysOf(rrRet.obj)[1] \in (1..28) \cup {0 - 1, 0 - 2}
               /\ rrRet.obj.bynweekday = {}
        /\ Len(ValuesOf(rrGen.s, <<"B", "Y", "M", "O", "N", "T", "H", "D", "A", "Y">>)) = 2 => rrRet.type = "ADVANCED"

\* what the supported subset leaves out, however the rule is written
UnsupportedParts ==
    { <<"F", "R", "E", "Q", "=", "S", "E", "C", "O", "N", "D", "L", "Y">>, <<"F", "R", "E", "Q", "=", "M", "I", "N", "U", "T", "E", "L", "Y">>, <<"F", "R", "E", "Q", "=", "H", "O", "U", "R", "L", "Y">>,
      <<"B", "Y", "H", "O", "U", "R", "=">>, <<"B", "Y", "M", "I", "N", "U", "T", "E", "=">>, <<"B", "Y", "S", "E", "C", "O", "N", "D", "=">>, <<"B", "Y", "E", "A", "S", "T", "E", "R", "=">> }

\* a rule that is missing, empty, unparsable or outside the supported subset
Unsupported(g, today) ==
    \/ g = NoRule
    \/ g.s = <<>>
    \/ \E part \in UnsupportedParts : IsSubstring(part, UpperStr(g.s))
    \/ rrulestr(g.s, today).exc # "none"

\* C12: validate_rrule returns an error for every rule that is missing,
\* empty, unparsable, or that uses SECONDLY, MINUTELY, HOURLY, BYHOUR,
\* BYMINUTE, BYSECOND or BYEASTER in whatever letter case; it returns None
\* only for rules of the supported subset
C12_RejectsUnsupported ==
    (rrPc = "validated" /\ Unsupported(rrGen, rrToday)) =>
        rrRet.exc = "none" /\ rrRet.ret # "None"

----------------------------------------------------------------------------
(* Forecast engine: properties *)

\* a forecast was computed and returned a frame
Forecasted == fcPc = "done" /\ fcOut.exc = "none"

Entries == 1..Len(fcCfs)

WindowDays == fcAfter..fcBefore

\* the days of the window on which each entry occurs
Occurring ==
    Computed([k \in Entries |->
        Elems(generate_occurences(fcCfs[k], fcAfter, fcBefore))])

\* the accounts map of each entry
EntryDeltas == Computed([k \in Entries |-> split_accounts(fcCfs[k].accounts)])

OverrideEntry(k) == EndsWith(fcCfs[k].desc, S_override)

\* entry j is an override for the series of the regular entry k
OverrideOf(j, k) ==
    /\ ~OverrideEntry(k)
    /\ OverrideEntry(j)
    /\ fcCfs[j].desc = fcCfs[k].desc \o S_override

\* the occurrence of the regular entry k on day d is replaced by an override
Overridden(occ, k, d) == \E j \in Entries : OverrideOf(j, k) /\ d \in occ[j]

\* the occurrences that count: <<entry, day>>
Counting(occ) ==
    {p \in Entries \X WindowDays : p[2] \in occ[p[1]] /\ ~Overridden(occ, p[1], p[2])}

\* what one occurrence with the accounts map accs adds to account a
DeltaOf(accs, a) ==
    IF \A i \in 1..Len(accs) : accs[i].name # a THEN 0
    ELSE Num(accs[CHOOSE i \in 1..Len(accs) : accs[i].name = a].amt)

\* the sum of the deltas of account a over the occurrences P
RECURSIVE Total(_, _, _)
Total(dl, a, P) ==
    IF P = {} THEN 0
    ELSE LET p == CHOOSE p \in P : TRUE
         IN DeltaOf(dl[p[1]], a) + Total(dl, a, P \ {p})

OutRows == 1..Len(fcOut.rows)

\* the value of account a in the row before row i (0 before the first row)
Before(i, a) == IF i = 1 THEN 0 ELSE fcOut.rows[i - 1].vals[a]

\* the text an occurrence of entry k leaves in the activity column
PieceOf(k) ==
    RemoveSuffix(fcCfs[k].desc, S_override) \o <<":", " ">> \o fcCfs[k].accounts

\* the pieces of an activity text
RECURSIVE PiecesOf(_)
PiecesOf(text) ==
    IF \E i \in 1..(Len(text) - 1) : text[i] = ";" /\ text[i + 1] = " "
    THEN LET i == CHOOSE i \in 1..(Len(text) - 1) :
                    /\ text[i] = ";" /\ text[i + 1] = " "
                    /\ \A j \in 1..(i - 1) : ~(text[j] = ";" /\ text[j + 1] = " ")
         IN <<SubSeq(text, 1, i - 1)>> \o PiecesOf(SubSeq(text, i + 2, Len(text)))
    ELSE <<text>>

\* the days on which a regular entry and an override of its series both occur
OverrideDays(occ) ==
    {d \in WindowDays : \E k \in Entries : d \in occ[k] /\ Overridden(occ, k, d)}

\* the row of day d moves every account by the deltas of the occurrences of
\* d other than the replaced ones, and its activity lists exactly those
RowReplaces(occ, dl, d, i) ==
    /\ fcOut.rows[i].date = d
    /\ \A a \in DOMAIN fcOut.rows[i].vals :
           fcOut.rows[i].vals[a] - Before(i, a) =
               Total(dl, a, {p \in Entries \X {d} :
                                /\ d \in occ[p[1]]
                                /\ ~\E j \in Entries : OverrideOf(j, p[1]) /\ d \in occ[j]})
    /\ Len(PiecesOf(fcOut.rows[i].activity)) =
           Cardinality({k \in Entries : d \in occ[k] /\ ~Overridden(occ, k, d)})
    /\ Elems(PiecesOf(fcOut.rows[i].activity)) =
           {PieceOf(k) : k \in {k \in Entries : d \in occ[k] /\ ~Overridden(occ, k, d)}}

Replaces(occ, dl) ==
    \A d \in OverrideDays(occ) : \E i \in OutRows : RowReplaces(occ, dl, d, i)

\* C4: when a regular entry with description X and an entry X_override both
\* have an occurrence on day D of the window, the row of D counts the
\* override's accounts and not the regular entry's: the row moves each
\* account by the deltas of the occurrences of D other than the replaced
\* ones, and its activity text lists exactly those occurrences
C4_OverrideReplaces == Forecasted => Replaces(Occurring, EntryDeltas)

Replaced(occ, dl) ==
    \E d \in OverrideDays(occ) : \E k, j \in Entries :
        /\ d \in occ[k] /\ OverrideOf(j, k) /\ d \in occ[j]
        /\ \E i \in OutRows : \E a \in DOMAIN fcOut.rows[i].vals :
              /\ fcOut.rows[i].date = d
              /\ DeltaOf(dl[k], a) = 0 - 100000
              /\ DeltaOf(dl[j], a) = 0 - 120000
              /\ fcOut.rows[i].vals[a] - Before(i, a) = 0 - 120000
              /\ PieceOf(k) \notin Elems(PiecesOf(fcOut.rows[i].activity))
              /\ PieceOf(j) \in Elems(PiecesOf(fcOut.rows[i].activity))

\* a forecast in which an override of -1200 replaced a regular occurrence
\* of -1000: the row of that day moves the account by -1200, not by -2200
C4_Witness == Forecasted /\ Replaced(Occurring, EntryDeltas)

\* every cell is the total of its account over the occurrences P dated on
\* or before the row, and the last row is dated at the latest of them
RunningTotals(dl, P) ==
    /\ \A i \in OutRows : \A a \in DOMAIN fcOut.rows[i].vals :
           fcOut.rows[i].vals[a] =
               Total(dl, a, {p \in P : p[2] <= fcOut.rows[i].date})
    /\ P # {} =>
           /\ fcOut.rows # <<>>
           /\ \A p \in P : p[2] <= fcOut.rows[Len(fcOut.rows)].date
           /\ \E p \in P : p[2] = fcOut.rows[Len(fcOut.rows)].date
           /\ \A a \in DOMAIN fcOut.rows[Len(fcOut.rows)].vals :
                  fcOut.rows[Len(fcOut.rows)].vals[a] = Total(dl, a, P)

\* C5: every cell of the forecast is the running total of its account: the
\* sum of the account's deltas over the counting occurrences dated on or
\* before the row's date, an occurrence that does not mention the account
\* adding 0; the last row is dated at the latest counting occurrence and
\* holds the totals over the whole window
C5_CumulativeLedger == Forecasted => RunningTotals(EntryDeltas, Counting(Occurring))

Carried(dl, P) ==
    \E p \in P : \E a \in DOMAIN fcOut.rows[1].vals :
        /\ DeltaOf(dl[p[1]], a) = 0
        /\ p[2] = fcOut.rows[Len(fcOut.rows)].date
        /\ fcOut.rows[Len(fcOut.rows)].vals[a] # 0
        /\ fcOut.rows[Len(fcOut.rows)].vals[a] = fcOut.rows[Len(fcOut.rows) - 1].vals[a]

\* a forecast of several rows whose last date has an occurrence that does
\* not mention an account, the last row still carrying that account's total
C5_Witness ==
    Forecasted /\ Len(fcOut.rows) >= 2 /\ Carried(EntryDeltas, Counting(Occurring))

\* the days on which several of the occurrences P fall
SharedDays(P) ==
    {d \in WindowDays : Cardinality({p \in P : p[2] = d}) >= 2}

OneRowPerDate(dl, P) ==
    /\ \A i, j \in OutRows : i < j => fcOut.rows[i].date < fcOut.rows[j].date
    /\ \A d \in SharedDays(P) :
           /\ Cardinality({i \in OutRows : fcOut.rows[i].date = d}) = 1
           /\ \A i \in OutRows : fcOut.rows[i].date = d =>
                  \A a \in DOMAIN fcOut.rows[i].vals :
                      fcOut.rows[i].vals[a] - Before(i, a) =
                          Total(dl, a, {p \in P : p[2] = d})

\* C6: every date has exactly one row and the rows are in ascending date
\* order; when several occurrences fall on one date, the one row of that
\* date moves each account by the sum of all their deltas
C6_OneRowPerDate == Forecasted => OneRowPerDate(EntryDeltas, Counting(Occurring))

Summed(dl, P) ==
    \E d \in SharedDays(P) : \E p, q \in P :
        /\ p # q /\ p[2] = d /\ q[2] = d
        /\ \E i \in OutRows : \E a \in DOMAIN fcOut.rows[i].vals :
              /\ fcOut.rows[i].date = d
              /\ DeltaOf(dl[p[1]], a) # 0 /\ DeltaOf(dl[q[1]], a) # 0
              /\ fcOut.rows[i].vals[a] - Before(i, a) =
                     DeltaOf(dl[p[1]], a) + DeltaOf(dl[q[1]], a)

\* a forecast with two occurrences on one date that move the same account
C6_Witness == Forecasted /\ Summed(EntryDeltas, Counting(Occurring))

\* C13: calling generate_forecast a second time with the same table
\* object and the same window returns the same forecast as the first call
C13_Idempotent ==
    fcPc = "again" => fcOut = fcPrev

\* a second call has returned a forecast of two rows or more
C13_Witness ==
    /\ fcPc = "again"
    /\ fcOut.exc = "none"
    /\ Len(fcOut.rows) >= 2

\* the days around the windows on which a forecast row could be dated
Horizon == (ToOrdinal(Date0) - 2)..(ToOrdinal(Date3) + 4)

\* entry k has an occurrence on day d, whatever the window
OccursOn(k, d) ==
    Occurs(rrulestr(fcCfs[k].rrule, StartOf(fcCfs[k].dtstart)),
           ToOrdinal(fcCfs[k].dtstart), d)

RowDates == {fcOut.rows[i].date : i \in OutRows}

\* C17: the forecast has a row dated d if and only if some entry has an
\* occurrence on d and after <= d <= before, both bounds included
C17_Window ==
    Forecasted =>
        RowDates = {d \in Horizon :
                       /\ fcAfter <= d /\ d <= fcBefore
                       /\ \E k \in Entries : OccursOn(k, d)}

\* a forecast with a row on each bound of the window, of a table in which
\* an entry also occurs on a day after the window
C17_Witness ==
    /\ Forecasted
    /\ fcAfter \in RowDates /\ fcBefore \in RowDates /\ fcAfter < fcBefore
    /\ \E k \in Entries : \E d \in Horizon : d > fcBefore /\ OccursOn(k, d)

\* the orders in which the rows of a table of n entries can be written
Orders(n) == {pi \in [1..n -> 1..n] : \A i, j \in 1..n : pi[i] = pi[j] => i = j}

Reordered(cfs, pi) == [i \in 1..Len(cfs) |-> cfs[pi[i]]]

\* the dates and the account values of a forecast, row by row
Ledgers(out) ==
    [i \in 1..Len(out.rows) |-> [date |-> out.rows[i].date, vals |-> out.rows[i].vals]]

\* the regular occurrences that an override of the table replaces
Matched(rows) ==
    {r \in Elems(rows) :
        /\ IsRegular(r)
        /\ \E o \in Elems(rows) :
              /\ IsOverride(o)
              /\ r.desc = RemoveSuffix(o.desc, S_override)
              /\ r.date = o.date}

\* the regular occurrences left once the overrides were applied
Left(rows) == SelectSeq(rows, LAMBDA r : IsRegular(r) /\ r \notin Matched(rows))

\* the regular occurrences that generate_forecast keeps
Kept(rows) ==
    SubSeq(Resolved(rows), 1, Len(Resolved(rows)) - Len(SelectSeq(rows, IsOverride)))

\* the table written in the order pi is resolved as the claim says
SameResolution(cfs, pi, after, before, pandas, out) ==
    /\ Kept(Exploded(Reordered(cfs, pi), after, before))
           = Left(Exploded(Reordered(cfs, pi), after, before))
    /\ Matched(Exploded(Reordered(cfs, pi), after, before))
           = Matched(Exploded(cfs, after, before))
    /\ generate_forecast(Reordered(cfs, pi), after, before, pandas).exc = "none"
    /\ Ledgers(generate_forecast(Reordered(cfs, pi), after, before, pandas))
           = Ledgers(out)

EntryColumns == {"desc", "accounts", "dtstart", "rrule"}

\* C19: generate_forecast does not modify the table passed to it: after
\* the call the caller's table has the columns desc, accounts, dtstart
\* and rrule, and no other
C19_TableUntouched ==
    fcPc \in {"done", "again"} =>
        \A k \in Entries : DOMAIN fcCfs[k] = EntryColumns

----------------------------------------------------------------------------
(* Price lookup: properties *)

\* the call that returned last made a lookup, and the lookup failed
LookupFailed ==
    /\ pxPc = "returned"
    /\ pxLookup # None
    /\ (pxLookup.exc # "none" \/ pxLookup.ret = NaN)

\* C16: when the external lookup fails, in whatever way, get_stock_price
\* raises nothing and returns the default 0.0
C16_DefaultOnFailure ==
    LookupFailed => pxRet = Result(Price(0))

\* what one call of get_stock_price may do to the cache
ReadThrough ==
    /\ \A s \in DOMAIN pxCache : s \in DOMAIN pxCache' /\ pxCache'[s] = pxCache[s]
    /\ pxSym' \in DOMAIN pxCache =>
          /\ pxLookup' = None
          /\ pxRet' = Result(pxCache[pxSym'])
          /\ pxCache' = pxCache
    /\ pxSym' \notin DOMAIN pxCache =>
          /\ pxLookup' # None
          /\ pxLookup'.exc = "none" =>
                /\ pxCache' = CacheSet(pxCache, pxSym', pxLookup'.ret)
                /\ pxRet' = Result(pxLookup'.ret)
          /\ pxLookup'.exc # "none" => pxCache' = pxCache

\* C20: in any sequence of get_stock_price calls on one cache, a symbol
\* in the cache is returned without a lookup and its cached value never
\* changes or disappears; a miss makes one lookup and stores its result if
\* it succeeds; a failed lookup leaves the cache as it was
C20_ReadThrough == [][ReadThrough]_vars

\* a call was served from the cache, which holds the symbol asked for
\* but not every symbol
C20_Witness ==
    /\ pxPc = "returned"
    /\ pxLookup = None
    /\ pxSym \in DOMAIN pxCache
    /\ pxRet = Result(pxCache[pxSym])
    /\ DOMAIN pxCache # Symbols

----------------------------------------------------------------------------
(* Entry list: properties *)

\* get_cashflow_series_upload was called by the handler that ran last
Uploaded == csContent # None

\* the content's text as a table of cells
Parsed == read_csv(csContent.text)

ColumnNames == {S_desc, S_accounts, S_dtstart, S_rrule}

LacksColumns ==
    Parsed.exc # "none" \/ \E name \in ColumnNames : ~HasColumn(Parsed, name)

\* some row has an empty desc, accounts that do not decode to a non-empty
\* map, a dtstart that is no ISO date, or a rule that validate_rrule rejects
BadRow ==
    \E i \in 1..Len(Parsed.cells) :
        \/ CellAt(Parsed, i, S_desc) = <<>>
        \/ CellAt(Parsed, i, S_accounts) = <<>>
        \/ split_accounts(CellAt(Parsed, i, S_accounts)) = <<>>
        \/ fromisoformat(CellAt(Parsed, i, S_dtstart)).exc # "none"
        \/ CellAt(Parsed, i, S_rrule) = <<>>
        \/ validate_rrule(Returned(CellAt(Parsed, i, S_rrule)), rrToday) # Result("None")

Balances(frame) ==
    Cardinality({i \in 1..Len(frame.cells) : CellAt(frame, i, S_desc) = S_balance})

\* C14: get_cashflow_series_upload returns None when the content lacks
\* one of the columns desc, accounts, dtstart, rrule or has a row with an
\* empty desc, undecodable accounts, a dtstart that is no ISO date or a
\* rejected rrule, and returns a table for well-formed content, a
\* header without rows included
C14_UploadValidated ==
    Uploaded =>
        /\ (LacksColumns \/ BadRow) => csRet = NoTable
        /\ (~LacksColumns /\ ~BadRow /\ Balances(Parsed) <= 1) =>
              (csRet.exc = "none" /\ ~csRet.none)

BalanceRows == {i \in 1..Len(csList) : LowerStr(csList[i].desc) = S_balance}

\* C15: whatever submissions, cell edits, deletions and uploads were
\* made, cashflow_series holds at most one entry whose desc is "balance"
\* in any case of the letters
C15_OneBalance == Cardinality(BalanceRows) <= 1

\* the handler that ran last ended with sort_cfs on the entry list
JustSorted ==
    \/ csPc = "deleted" /\ csRows # {}
    \/ csPc = "uploaded" /\ ~csRet.none

\* C21: after sort_cfs, the entry whose desc is "balance", in any case of
\* the letters, is the first row of the entry list
C21_BalanceFirst ==
    (JustSorted /\ Cardinality(BalanceRows) = 1) => BalanceRows = {1}

\* the columns of the grid, by column_index
GridColumns == <<"desc", "accounts", "dtstart", "rrule">>

\* the value typed is one the patch function is to reject
Unacceptable(patch, today) ==
    \/ patch.column_index = 0 /\ patch.value = <<>>
    \/ patch.column_index = 1 /\ split_accounts(patch.value) = <<>>
    \/ patch.column_index = 2 /\ fromisoformat(patch.value).exc # "none"
    \/ patch.column_index = 3
          /\ validate_rrule(Returned(patch.value), today) # Result("None")

\* the rows of new are the rows of old, in some order, but for the cell
\* of the patch
OnlyCellChanged(old, new, patch) ==
    /\ Len(new) = Len(old)
    /\ \E pi \in Orders(Len(old)) :
          \A i \in 1..Len(old) : \A c \in 1..4 :
              (i # patch.row_index \/ c # patch.column_index + 1) =>
                  new[pi[i]][GridColumns[c]] = old[i][GridColumns[c]]

\* what a cell edit may do
PatchKeeps ==
    csPc' = "patched" =>
        /\ Unacceptable(csPatch', rrToday) =>
              (csList' = csList /\ csCell' = Result("orig_value"))
        /\ ~Unacceptable(csPatch', rrToday) =>
              OnlyCellChanged(csList, csList', csPatch')

\* C22: a cell edit with an empty desc, undecodable accounts, a dtstart
\* that is no ISO date or a rule that validate_rrule does not accept
\* returns the cell's original value and leaves the entry list as it was;
\* an accepted edit changes only the edited cell of the edited entry
C22_RejectedEditKeeps == [][PatchKeeps]_vars

----------------------------------------------------------------------------
(* Recurrence codec: what parse_rrulestr takes for a form rule *)

\* the stored string is one rrulestr reads, and parse_rrulestr has run
ParsedRule == rrPc = "parsed" /\ rrulestr(rrGen.s, rrToday).exc = "none"

\* the rule object the string stands for
StoredRule == rrulestr(rrGen.s, rrToday)

\* C26: parse_rrulestr never raises on a rule, and it returns a type
\* other than Advanced only for a single rule whose frequency is DAILY,
\* WEEKLY, MONTHLY or YEARLY and that has no BYSETPOS: a rule of
\* frequency SECONDLY, MINUTELY or HOURLY is Advanced whatever BY* parts
\* it has
C26_RepresentableFreqs ==
    ParsedRule =>
        /\ rrRet.exc = "none"
        /\ rrRet.type # "ADVANCED" =>
              /\ ~StoredRule.ruleset
              /\ StoredRule.freq \in {YEARLY, MONTHLY, WEEKLY, DAILY}
              /\ StoredRule.bysetpos = <<>>

----------------------------------------------------------------------------
(* Forecast engine: accounts strings and columns *)

\* generate_forecast ran once, whatever came of it
Ran == fcPc = "done"

\* an entry that occurs in the window has an accounts string that
\* split_accounts does not decode
UndecodableOccurs ==
    \E k \in Entries : Occurring[k] # {} /\ EntryDeltas[k] = <<>>

\* C24: generate_forecast raises an error when an entry with an
\* occurrence in the window has an accounts string that split_accounts
\* cannot decode, rather than returning a ledger
C24_UndecodableRaises == (Ran /\ UndecodableOccurs) => fcOut.exc # "none"

\* the account names of the entries passed in
EntryNames == UNION {Keys(EntryDeltas[k]) : k \in Entries}

\* the numeric columns of the frame returned
OutColumns == UNION {DOMAIN fcOut.rows[i].vals : i \in OutRows}

\* C27: the frame generate_forecast returns has one numeric column for
\* every account name in the accounts map of any entry passed in, the
\* entries with no occurrence in the window included
C27_EveryAccountColumn ==
    (Forecasted /\ fcOut.rows # <<>>) => EntryNames \subseteq OutColumns

----------------------------------------------------------------------------
(* Entry list: deletions *)

\* b holds the rows of a, each as often, in some order
SameRows(a, b) ==
    /\ Len(a) = Len(b)
    /\ \E pi \in Orders(Len(a)) : \A i \in 1..Len(a) : b[pi[i]] = a[i]

\* what Delete Selected and Delete All may do
DeleteSteps ==
    /\ csPc' = "deleted" =>
          /\ csRows' # {} => SameRows(drop(csList, csRows'), csList')
          /\ csRows' = {} => csList' = csList
    /\ csPc' = "cleared" => csList' = <<>>

\* C29: Delete Selected with the rows S selected leaves the entry list
\* without the rows in S, and leaves it as it was when no row is
\* selected; Delete All leaves an empty list
C29_DeleteRemoves == [][DeleteSteps]_vars

----------------------------------------------------------------------------
(* Entry list: the accounts strings it holds *)

\* the accounts map of the stored entry i
StoredAccounts(i) == split_accounts(csList[i].accounts)

\* C25: after any submissions, cell edits and uploads, every entry of
\* cashflow_series has an accounts string that split_accounts decodes to
\* a non-empty map, with no name twice and no reserved column name,
\* whatever names were typed into the add form
C25_StoredAccountsValid ==
    \A i \in 1..Len(csList) :
        /\ StoredAccounts(i) # <<>>
        /\ Cardinality(Keys(StoredAccounts(i))) = Len(StoredAccounts(i))
        /\ Keys(StoredAccounts(i)) \cap ReservedNames = {}

----------------------------------------------------------------------------
(* The add form: properties *)

\* edit_row was given one entry whose rule parse_rrulestr returns as
\* Advanced
AdvancedSelected ==
    /\ fmPc = "edited"
    /\ fmRow # None
    /\ fmRow.rrule # SentinelRule
    /\ parse_rrulestr(fmRow.rrule, rrToday) = Advanced

\* C23: when the entry selected for editing has a rule that
\* parse_rrulestr classifies as Advanced, edit_row raises nothing, turns
\* the advanced switch on, puts the stored rule string as it is into
\* custom_rrule and sets none of the simple recurrence inputs
C23_AdvancedToCustom ==
    AdvancedSelected =>
        /\ fmExc = "none"
        /\ fmForm.advanced_repeat
        /\ fmForm.custom_rrule = fmRow.rrule
        /\ ~fmForm.freq_set /\ fmForm.by = "none"

\* C28: whatever "+ account", "- account", Reset Form, Submit and
\* edit-row events came, the form has between 1 and 8 account rows,
\* "+ account" is disabled exactly when there are 8 and "- account"
\* exactly when there is 1
C28_AccountRows ==
    fmPc \in FormRunning =>
        /\ fmForm.accountmods \in 1..8
        /\ fmForm.add_disabled <=> fmForm.accountmods = 8
        /\ fmForm.delete_disabled <=> fmForm.accountmods = 1

----------------------------------------------------------------------------
(* Ticker conversion: properties *)

\* the frame generate_forecast made for cashflow_forecast
TickerLedger == generate_forecast(tkCfs, TickerAfter, TickerBefore, "aligns")

\* cashflow_forecast ran on a frame
Converting == tkPc = "forecast" /\ TickerLedger.exc = "none"

\* cashflow_forecast returned a frame
ConvertedFrame == tkOut # Aborted /\ tkOut.exc = "none"

====
